---- MODULE Spec2Model ----
(***************************************************************************)
(* The semantic analyzer (src/src/semantic_analyzer.rs) and the symbol     *)
(* table (src/src/symbol_table.rs) of the minisoft compiler.               *)
(*                                                                         *)
(* A program is analysed one declaration, then one statement, at a time:   *)
(* each step of the two loops of SemanticAnalyzer::analyze is one action,  *)
(* whose declaration or statement is drawn from a bounded universe.        *)
(* A second specification, SpecTable, drives the SymbolTable operations    *)
(* directly with arbitrary arguments.                                      *)
(*                                                                         *)
(* Encoding.  Enum values are tuples whose first component is the variant  *)
(* name.  A Float is an exact rational <<"Float", n, d>> in lowest terms   *)
(* with d > 0; the literals used are dyadic, so sums and products are the  *)
(* f32 results, and a quotient is zero exactly when the f32 quotient is.   *)
(* Option<T> is <<"Some", v>> or <<"None">>.                               *)
(***************************************************************************)
EXTENDS Integers, Sequences, FiniteSets, TLC

VARIABLES
    symbol_table,   \* SemanticAnalyzer.symbol_table.table: name -> SymbolEntry
    errors,         \* SemanticAnalyzer.errors
    source_map,     \* SemanticAnalyzer.source_map: name -> <<line, column>>
    overflow_checks,\* the build profile: TRUE when integer overflow panics
    pc,             \* where analyze (or the table driver) stands
    steps,          \* declarations and statements processed so far
    ret,            \* what the last call returned to its caller
    last,           \* the declaration, statement or table call last processed
    tokens,         \* main: the identifier tokens of the source text, in order
    occ,            \* main: how many of them the analysed part of the program holds
    quads,          \* QuadrupleGenerator.quads
    temp_count,     \* QuadrupleGenerator.temp_count
    label_count     \* QuadrupleGenerator.label_count

\* the fields of the QuadrupleGenerator
generator == <<quads, temp_count, label_count>>

vars == <<symbol_table, errors, source_map, overflow_checks, pc, steps, ret, last,
          tokens, occ, quads, temp_count, label_count>>

-----------------------------------------------------------------------------
(* Bounds of the model *)

MaxSteps == 2      \* declarations plus statements of an analysed program
ArrSize == 2       \* the declared size of the arrays
MaxTokens == 3     \* identifier tokens of a source text (SpecMain)

-----------------------------------------------------------------------------
(* ast.rs *)

Integer(n) == <<"Integer", n>>
FloatE(n, d) == <<"Float", n, d>>
StringE(s) == <<"String", s>>
TypeE(type_name) == <<"Type", type_name>>
ArrayType(type_name, size) == <<"ArrayType", type_name, size>>
Simple(name) == <<"Simple", name>>
ArrayVar(name, index) == <<"Array", name, index>>
Var(v) == <<"Var", v>>
Binary(left, op, right) == <<"Binary", left, op, right>>
Not(e) == <<"Not", e>>
Literal(e) == <<"Literal", e>>

VariableDecl(names, type_spec) == <<"VariableDecl", names, type_spec>>
ConstDecl(name, type_name, value) == <<"ConstDecl", name, type_name, value>>

Assignment(target, value) == <<"Assignment", target, value>>
IfElse(condition, if_branch, else_branch) == <<"IfElse", condition, if_branch, else_branch>>
DoWhile(condition, body) == <<"DoWhile", condition, body>>
For(var, start, end, step, body) == <<"For", var, start, end, step, body>>
Input(var) == <<"Input", var>>
Output(expressions) == <<"Output", expressions>>

-----------------------------------------------------------------------------
(* symbol_table.rs: the data *)

Variable == <<"Variable">>
Constant == <<"Constant">>
ArrayEntity(size) == <<"Array", size>>

IntV(n) == <<"Int", n>>
FloatV(n, d) == <<"Float", n, d>>
ArrayV(elements) == <<"Array", elements>>
Undefined == <<"Undefined">>

Some(v) == <<"Some", v>>
None == <<"None">>
Panic == <<"Panic">>          \* the call did not return: the thread panicked
IsSome(o) == o[1] = "Some"

SymbolEntry(name, entity_type, data_type, value, pos) ==
    [name |-> name, entity_type |-> entity_type, data_type |-> data_type,
     value |-> value, line |-> pos[1], column |-> pos[2]]

EmptyTable == [n \in {} |-> Undefined]

Ok(t) == [ok |-> TRUE, table |-> t, err |-> <<"">>]
Err(t, message) == [ok |-> FALSE, table |-> t, err |-> message]

-----------------------------------------------------------------------------
(* symbol_table.rs: the operations, as functions of the table *)

lookup(t, name) == IF name \in DOMAIN t THEN Some(t[name]) ELSE None

\* a mutation: a second insert replaces the entry, as HashMap::insert alone would
insert_overwriting(t, entry) == Ok([n \in DOMAIN t \cup {entry.name} |->
                                      IF n = entry.name THEN entry ELSE t[n]])

insert(t, entry) ==
    IF entry.name \in DOMAIN t
    THEN Err(t, <<"DoubleDeclaration", entry.name, entry.line, entry.column>>)
    ELSE Ok(t @@ (entry.name :> entry))

\* a mutation: the update also turns the entry into a plain variable
update_value_retyping(t, name, value) ==
    IF name \in DOMAIN t
    THEN Ok([t EXCEPT ![name].value = value, ![name].entity_type = Variable])
    ELSE Err(t, <<"UndefinedSymbol", name>>)

update_value(t, name, value) ==
    IF name \in DOMAIN t
    THEN Ok([t EXCEPT ![name].value = value])
    ELSE Err(t, <<"UndefinedSymbol", name>>)

\* a mutation: an index past the end is ignored instead of reported
update_array_element_lenient(t, name, index, value) ==
    IF name \in DOMAIN t
    THEN IF t[name].value[1] = "Array"
         THEN LET elements == t[name].value[2] IN
              IF index < Len(elements)
              THEN Ok([t EXCEPT ![name].value =
                          ArrayV([elements EXCEPT ![index + 1] = value])])
              ELSE Ok(t)
         ELSE Err(t, <<"NotAnArray", name>>)
    ELSE Err(t, <<"UndeclaredArray", name>>)

\* index is a usize: never negative
update_array_element(t, name, index, value) ==
    IF name \in DOMAIN t
    THEN IF t[name].value[1] = "Array"
         THEN LET elements == t[name].value[2] IN
              IF index < Len(elements)
              THEN Ok([t EXCEPT ![name].value =
                          ArrayV([elements EXCEPT ![index + 1] = value])])
              ELSE Err(t, <<"IndexOutOfBounds", index, name, Len(elements)>>)
         ELSE Err(t, <<"NotAnArray", name>>)
    ELSE Err(t, <<"UndeclaredArray", name>>)

-----------------------------------------------------------------------------
(* i32 and f32 arithmetic, as the evaluators use it *)

I32Max == 2147483647
I32Min == -I32Max - 1

\* Rust's integer division truncates toward zero (b # 0, not I32Min / -1)
TruncDiv(a, b) ==
    IF b = I32Min THEN (IF a = I32Min THEN 1 ELSE 0)
    ELSE LET m == IF b < 0 THEN -b ELSE b
             q == a \div b
         IN IF a % m # 0 /\ q < 0 THEN q + 1 ELSE q

AddOverflows(a, b) == (b > 0 /\ a > I32Max - b) \/ (b < 0 /\ a < I32Min - b)
WrapAdd(a, b) ==
    IF b > 0 /\ a > I32Max - b THEN ((a - I32Max) + (b - 1)) + I32Min
    ELSE IF b < 0 /\ a < I32Min - b THEN ((a - I32Min) + (b + 1)) + I32Max
    ELSE a + b

SubOverflows(a, b) == (b < 0 /\ a > I32Max + b) \/ (b > 0 /\ a < I32Min + b)
WrapSub(a, b) ==
    IF b < 0 /\ a > I32Max + b THEN ((a - I32Max) - (b + 1)) + I32Min
    ELSE IF b > 0 /\ a < I32Min + b THEN ((a - I32Min) - (b - 1)) + I32Max
    ELSE a - b

MulOverflows(a, b) ==
    /\ a # 0
    /\ b # 0
    /\ \/ a > 0 /\ b > 0 /\ a > TruncDiv(I32Max, b)
       \/ a > 0 /\ b < 0 /\ b < TruncDiv(I32Min, a)
       \/ a < 0 /\ b > 0 /\ a < TruncDiv(I32Min, b)
       \/ a < 0 /\ b < 0 /\ a < TruncDiv(I32Max, b)

\* a * b modulo 2^32 by doubling; each half is computed once and bound
RECURSIVE WrapMul(_, _)
WrapMul(a, b) ==
    IF b = 0 THEN 0
    ELSE CHOOSE p \in
            {IF b % 2 = 0 THEN h ELSE IF b > 0 THEN WrapAdd(h, a) ELSE WrapSub(h, a) :
                h \in UNION {{WrapMul(d, t) : d \in {WrapAdd(a, a)}} :
                                t \in {TruncDiv(b, 2)}}} : TRUE

\* left_int + right_int and friends: a dev build panics on overflow, a release
\* build wraps; i32::MIN / -1 panics in both
IntAdd(a, b) ==
    IF AddOverflows(a, b) /\ overflow_checks THEN Panic ELSE Some(IntV(WrapAdd(a, b)))
IntSub(a, b) ==
    IF SubOverflows(a, b) /\ overflow_checks THEN Panic ELSE Some(IntV(WrapSub(a, b)))
IntMul(a, b) ==
    IF MulOverflows(a, b) /\ overflow_checks THEN Panic ELSE Some(IntV(WrapMul(a, b)))
IntDiv(a, b) ==
    IF a = I32Min /\ b = -1 THEN Panic ELSE Some(IntV(TruncDiv(a, b)))

RECURSIVE GCD(_, _)
GCD(a, b) == IF b = 0 THEN a ELSE GCD(b, a % b)

\* the rational n / d (d # 0) in lowest terms with a positive denominator
Rat(n, d) ==
    LET sn == IF d < 0 THEN -n ELSE n
        sd == IF d < 0 THEN -d ELSE d
        g == GCD(IF sn < 0 THEN -sn ELSE sn, sd)
    IN FloatV(sn \div g, sd \div g)

FloatAdd(x, y) == Rat(x[2] * y[3] + y[2] * x[3], x[3] * y[3])
FloatSub(x, y) == Rat(x[2] * y[3] - y[2] * x[3], x[3] * y[3])
FloatMul(x, y) == Rat(x[2] * y[2], x[3] * y[3])
FloatDiv(x, y) == Rat(x[2] * y[3], x[3] * y[2])
IsZeroFloat(x) == x[2] = 0
\* an f32 holds 24 significant bits
F32Mantissa == 16777216

\* the f32 nearest to the non-negative integer m, ties to the even mantissa
NearestF32(m) ==
    IF m < F32Mantissa THEN m
    ELSE LET e == CHOOSE k \in 1..7 :
                     m \div 2^k < F32Mantissa /\ m \div 2^(k - 1) >= F32Mantissa
             q == m \div 2^e
             rest == m % 2^e
             half == 2^(e - 1)
             up == rest > half \/ (rest = half /\ q % 2 = 1)
         IN (IF up THEN q + 1 ELSE q) * 2^e

\* left_int as f32
AsF32(n) == FloatV(IF n < 0 THEN -NearestF32(-n) ELSE NearestF32(n), 1)

-----------------------------------------------------------------------------
(* semantic_analyzer.rs: the two evaluators, as functions of the table *)

IsArith(op) == op \in {"Add", "Subtract", "Multiply", "Divide"}

\* a mutation: the mixed arms handle Add only, as the same-typed arms do
MixedArithAddOnly(op, lf, rf) == IF op = "Add" THEN Some(FloatAdd(lf, rf)) ELSE None

\* the four arms of the mixed Int/Float match of evaluate_expression
MixedArith(op, lf, rf) ==
    CASE op = "Add" -> Some(FloatAdd(lf, rf))
      [] op = "Subtract" -> Some(FloatSub(lf, rf))
      [] op = "Multiply" -> Some(FloatMul(lf, rf))
      [] op = "Divide" -> IF IsZeroFloat(rf) THEN None ELSE Some(FloatDiv(lf, rf))
      [] OTHER -> None

EvalExprBinary(op, l, r) ==
    CASE l[1] = "Int" /\ r[1] = "Int" ->
             IF op = "Add" THEN IntAdd(l[2], r[2]) ELSE None
      [] l[1] = "Float" /\ r[1] = "Float" ->
             IF op = "Add" THEN Some(FloatAdd(l, r)) ELSE None
      [] l[1] = "Int" /\ r[1] = "Float" -> MixedArith(op, AsF32(l[2]), r)
      [] l[1] = "Float" /\ r[1] = "Int" -> MixedArith(op, l, AsF32(r[2]))
      [] OTHER -> None

RECURSIVE evaluate_expression(_, _)
evaluate_expression(t, expr) ==
    CASE expr[1] = "Integer" -> Some(IntV(expr[2]))
      [] expr[1] = "Float" -> Some(FloatV(expr[2], expr[3]))
      [] expr[1] = "String" -> None
      [] expr[1] = "Literal" -> evaluate_expression(t, expr[2])
      [] expr[1] = "Var" ->
             IF expr[2][1] = "Simple"
             THEN LET name == expr[2][2] IN
                  IF name \in DOMAIN t /\ t[name].value # Undefined
                  THEN Some(t[name].value)
                  ELSE None
             ELSE None
      [] expr[1] = "Binary" ->
             LET left_val == evaluate_expression(t, expr[2])
                 right_val == evaluate_expression(t, expr[4])
             IN IF left_val = Panic \/ right_val = Panic THEN Panic
                ELSE IF IsSome(left_val) /\ IsSome(right_val)
                THEN EvalExprBinary(expr[3], left_val[2], right_val[2])
                ELSE None
      [] expr[1] = "Not" ->
             LET val == evaluate_expression(t, expr[2]) IN
             IF val = Panic THEN Panic
             ELSE IF IsSome(val)
             THEN CASE val[2][1] = "Int" -> Some(IntV(IF val[2][2] = 0 THEN 1 ELSE 0))
                    [] val[2][1] = "Float" -> Some(IntV(IF IsZeroFloat(val[2]) THEN 1 ELSE 0))
                    [] OTHER -> None
             ELSE None
      [] OTHER -> None

EvalConstBinary(op, l, r) ==
    CASE l[1] = "Int" /\ r[1] = "Int" ->
             CASE op = "Add" -> IntAdd(l[2], r[2])
               [] op = "Subtract" -> IntSub(l[2], r[2])
               [] op = "Multiply" -> IntMul(l[2], r[2])
               [] op = "Divide" -> IF r[2] = 0 THEN None ELSE IntDiv(l[2], r[2])
               [] OTHER -> None
      [] l[1] = "Float" /\ r[1] = "Float" ->
             CASE op = "Add" -> Some(FloatAdd(l, r))
               [] op = "Subtract" -> Some(FloatSub(l, r))
               [] op = "Multiply" -> Some(FloatMul(l, r))
               [] op = "Divide" -> IF IsZeroFloat(r) THEN None ELSE Some(FloatDiv(l, r))
               [] OTHER -> None
      [] OTHER -> None

RECURSIVE evaluate_constant(_, _)
evaluate_constant(t, expr) ==
    CASE expr[1] = "Integer" -> Some(IntV(expr[2]))
      [] expr[1] = "Float" -> Some(FloatV(expr[2], expr[3]))
      [] expr[1] = "Literal" -> evaluate_constant(t, expr[2])
      [] expr[1] = "Binary" ->
             LET left_val == evaluate_constant(t, expr[2])
                 right_val == evaluate_constant(t, expr[4])
             IN IF left_val = Panic \/ right_val = Panic THEN Panic
                ELSE IF IsSome(left_val) /\ IsSome(right_val)
                THEN EvalConstBinary(expr[3], left_val[2], right_val[2])
                ELSE None
      [] expr[1] = "Not" -> None
      [] expr[1] = "Var" ->
             IF expr[2][1] = "Simple"
             THEN LET name == expr[2][2] IN
                  IF name \in DOMAIN t /\ t[name].entity_type = Constant
                  THEN Some(t[name].value)
                  ELSE None
             ELSE None
      [] OTHER -> None

-----------------------------------------------------------------------------
(* semantic_analyzer.rs: the analyzer.  Its methods are functions of       *)
(* st = [table, errors, panic]: the symbol table, the error list, and      *)
(* whether the thread has panicked (nothing after a panic has an effect).  *)

\* self.source_map.get(name).unwrap_or(&(0, 0))
SourceMapGet(name) == IF name \in DOMAIN source_map THEN source_map[name] ELSE <<0, 0>>

SemanticError(message, pos) == [message |-> message, line |-> pos[1], column |-> pos[2]]

\* self.errors.push(SemanticError { message, line, column })
PushError(st, message, pos) ==
    [st EXCEPT !.errors = Append(@, SemanticError(message, pos))]

Panicked(st) == [st EXCEPT !.panic = TRUE]

\* if let Err(e) = <table operation> { push e at the name's position }
ApplyUpdate(st, r, name) ==
    IF r.ok THEN [st EXCEPT !.table = r.table]
    ELSE PushError(st, r.err, SourceMapGet(name))

get_expr_source_pos(expr) ==
    IF expr[1] = "Var" THEN SourceMapGet(expr[2][2]) ELSE <<0, 0>>

IsZeroValue(v) ==
    \/ v[1] = "Int" /\ v[2] = 0
    \/ v[1] = "Float" /\ IsZeroFloat(v)

OutOfBounds(idx, size) == idx < 0 \/ idx >= size

RECURSIVE check_expression(_, _)
check_expression(st, expr) ==
    IF st.panic THEN st
    ELSE CASE expr[1] = "Var" ->
             LET var == expr[2]
                 name == var[2]
             IN IF var[1] = "Simple"
                THEN IF ~IsSome(lookup(st.table, name))
                     THEN PushError(st, <<"UndeclaredIdentifier", name>>, SourceMapGet(name))
                     ELSE st
                ELSE IF IsSome(lookup(st.table, name))
                THEN LET entry == st.table[name] IN
                     IF entry.entity_type[1] = "Array"
                     THEN LET size == entry.entity_type[2]
                              idx_val == evaluate_constant(st.table, var[3])
                          IN IF idx_val = Panic THEN Panicked(st)
                             ELSE check_expression(
                                    IF /\ IsSome(idx_val)
                                       /\ idx_val[2][1] = "Int"
                                       /\ OutOfBounds(idx_val[2][2], size)
                                    THEN PushError(st,
                                           <<"ArrayIndexOutOfBounds", name, idx_val[2][2], size>>,
                                           SourceMapGet(name))
                                    ELSE st,
                                    var[3])
                     ELSE PushError(st, <<"NotAnArray", name>>, SourceMapGet(name))
                ELSE PushError(st, <<"UndeclaredIdentifier", name>>, SourceMapGet(name))
           [] expr[1] = "Binary" ->
             LET st2 == check_expression(check_expression(st, expr[2]), expr[4]) IN
             IF st2.panic \/ expr[3] # "Divide" THEN st2
             ELSE LET right_val == evaluate_expression(st2.table, expr[4]) IN
                  IF right_val = Panic THEN Panicked(st2)
                  ELSE IF IsSome(right_val) /\ IsZeroValue(right_val[2])
                  THEN PushError(st2, <<"DivisionByZero">>, get_expr_source_pos(expr[4]))
                  ELSE st2
           [] expr[1] = "Not" -> check_expression(st, expr[2])
           [] OTHER -> st

check_condition(st, condition) == check_expression(st, condition)

\* the literal fast path of check_assignment: Some(value) when value is an
\* Integer or Float literal, bare or directly under one literal-wrapper
LiteralValue(value) ==
    CASE value[1] = "Integer" -> Some(IntV(value[2]))
      [] value[1] = "Float" -> Some(FloatV(value[2], value[3]))
      [] value[1] = "Literal" /\ value[2][1] = "Integer" -> Some(IntV(value[2][2]))
      [] value[1] = "Literal" /\ value[2][1] = "Float" -> Some(FloatV(value[2][2], value[2][3]))
      [] OTHER -> None

\* a mutation: assignments to constants are let through
NoConstantGuard(entry) == FALSE

\* if let EntityType::Constant = entry.entity_type
IsConstant(entry) == entry.entity_type = Constant

\* Variable::Simple(name) arm
CheckAssignmentSimple(st, name, value) ==
    IF ~IsSome(lookup(st.table, name))
    THEN PushError(st, <<"UndeclaredIdentifier", name>>, SourceMapGet(name))
    ELSE IF IsConstant(st.table[name])
    THEN PushError(st, <<"ConstAssignment", name>>, SourceMapGet(name))
    ELSE IF value[1] = "String"
    THEN PushError(st, <<"StringAssignment", value[2], name, st.table[name].data_type>>,
                   SourceMapGet(name))
    ELSE LET st1 == check_expression(st, value) IN
         IF st1.panic THEN st1
         ELSE IF IsSome(LiteralValue(value))
         THEN ApplyUpdate(st1, update_value(st1.table, name, LiteralValue(value)[2]), name)
         ELSE LET evaluated_value == evaluate_expression(st1.table, value) IN
              IF evaluated_value = Panic THEN Panicked(st1)
              ELSE IF IsSome(evaluated_value)
              THEN ApplyUpdate(st1, update_value(st1.table, name, evaluated_value[2]), name)
              ELSE ApplyUpdate(st1, update_value(st1.table, name, Undefined), name)

\* the write of Variable::Array once the index is known to be in bounds
WriteElement(st, name, idx, value) ==
    LET v == evaluate_expression(st.table, value) IN
    IF v = Panic THEN Panicked(st)
    ELSE IF IsSome(v)
    THEN ApplyUpdate(st, update_array_element(st.table, name, idx, v[2]), name)
    ELSE [st EXCEPT !.table = update_array_element(st.table, name, idx, Undefined).table]

\* Variable::Array { name, index } arm
CheckAssignmentArray(st, name, index, value) ==
    IF ~IsSome(lookup(st.table, name))
    THEN PushError(st, <<"UndeclaredIdentifier", name>>, SourceMapGet(name))
    ELSE LET entry == st.table[name]
             st1 ==
               IF entry.entity_type[1] = "Array"
               THEN LET size == entry.entity_type[2]
                        idx_val == evaluate_constant(st.table, index)
                    IN IF idx_val = Panic THEN Panicked(st)
                       ELSE IF IsSome(idx_val) /\ idx_val[2][1] = "Int"
                       THEN IF OutOfBounds(idx_val[2][2], size)
                            THEN PushError(st,
                                   <<"ArrayIndexOutOfBounds", name, idx_val[2][2], size>>,
                                   SourceMapGet(name))
                            ELSE WriteElement(st, name, idx_val[2][2], value)
                       ELSE check_expression(st, index)
               ELSE PushError(st, <<"NotAnArray", name>>, SourceMapGet(name))
         IN check_expression(st1, value)

check_assignment(st, target, value) ==
    IF st.panic THEN st
    ELSE IF target[1] = "Simple"
    THEN CheckAssignmentSimple(st, target[2], value)
    ELSE CheckAssignmentArray(st, target[2], target[3], value)

\* Statement::For before its body: the variable, then start, end, step
ForHeader(st, var, start, end, step) ==
    LET st1 ==
          IF ~IsSome(lookup(st.table, var))
          THEN PushError(st, <<"UndeclaredIdentifier", var>>, SourceMapGet(var))
          ELSE LET start_val == evaluate_expression(st.table, start) IN
               IF start_val = Panic THEN Panicked(st)
               ELSE IF IsSome(start_val)
               THEN ApplyUpdate(st, update_value(st.table, var, start_val[2]), var)
               ELSE st
    IN check_expression(check_expression(check_expression(st1, start), end), step)

\* Statement::Input { var }
ProcessInput(st, var) ==
    IF ~IsSome(lookup(st.table, var))
    THEN PushError(st, <<"UndeclaredIdentifier", var>>, SourceMapGet(var))
    ELSE ApplyUpdate(st, update_value(st.table, var, Undefined), var)

\* for expr in expressions { self.check_expression(expr) }
RECURSIVE CheckExpressions(_, _)
CheckExpressions(st, expressions) ==
    IF expressions = <<>> THEN st
    ELSE CheckExpressions(check_expression(st, Head(expressions)), Tail(expressions))

RECURSIVE process_statement(_, _), ProcessStatements(_, _)
process_statement(st, stmt) ==
    IF st.panic THEN st
    ELSE CASE stmt[1] = "Assignment" -> check_assignment(st, stmt[2], stmt[3])
           [] stmt[1] = "IfElse" ->
                ProcessStatements(
                    ProcessStatements(check_condition(st, stmt[2]), stmt[3]), stmt[4])
           [] stmt[1] = "DoWhile" ->
                ProcessStatements(check_condition(st, stmt[2]), stmt[3])
           [] stmt[1] = "For" ->
                ProcessStatements(ForHeader(st, stmt[2], stmt[3], stmt[4], stmt[5]), stmt[6])
           [] stmt[1] = "Input" -> ProcessInput(st, stmt[2])
           [] stmt[1] = "Output" -> CheckExpressions(st, stmt[2])

\* a mutation: the loop stops at the first statement that reports an error
ProcessStatementsFailFast(st, stmts) ==
    IF stmts = <<>> THEN st
    ELSE LET st1 == process_statement(st, Head(stmts)) IN
         IF Len(st1.errors) > Len(st.errors) THEN st1
         ELSE ProcessStatements(st1, Tail(stmts))

\* for stmt in body { self.process_statement(stmt) }
ProcessStatements(st, stmts) ==
    IF stmts = <<>> THEN st
    ELSE ProcessStatements(process_statement(st, Head(stmts)), Tail(stmts))

get_data_type(type_expr) ==
    IF type_expr[1] \in {"Type", "ArrayType"} /\ type_expr[2] = "Float"
    THEN "Float"
    ELSE "Int"

\* if let Err(e) = self.symbol_table.insert(entry) { push e at (line, column) }
InsertEntry(st, entry) ==
    LET r == insert(st.table, entry) IN
    IF r.ok THEN [st EXCEPT !.table = r.table]
    ELSE PushError(st, r.err, <<entry.line, entry.column>>)

\* the body of `for name in names` of the VariableDecl arm.
\* vec![Value::Undefined; size as usize] aborts for a negative size
DeclareName(st, name, type_spec) ==
    IF st.panic THEN st
    ELSE CASE type_spec[1] = "Type" ->
                InsertEntry(st, SymbolEntry(name, Variable, get_data_type(type_spec),
                                            Undefined, SourceMapGet(name)))
           [] type_spec[1] = "ArrayType" ->
                IF type_spec[3] < 0 THEN Panicked(st)
                ELSE InsertEntry(st,
                        SymbolEntry(name, ArrayEntity(type_spec[3]), get_data_type(type_spec),
                                    ArrayV([i \in 1..type_spec[3] |-> Undefined]),
                                    SourceMapGet(name)))
           [] OTHER -> st

RECURSIVE DeclareNames(_, _, _)
DeclareNames(st, names, type_spec) ==
    IF names = <<>> THEN st
    ELSE DeclareNames(DeclareName(st, Head(names), type_spec), Tail(names), type_spec)

\* (DataType::Int, Value::Int(_)) | (DataType::Float, Value::Float(_))
TypesMatch(data_type, const_value) ==
    \/ data_type = "Int" /\ const_value[1] = "Int"
    \/ data_type = "Float" /\ const_value[1] = "Float"

\* the ConstDecl arm
DeclareConst(st, name, type_name, value) ==
    IF type_name \notin {"Int", "Float"}
    THEN PushError(st, <<"UnknownType", type_name>>, SourceMapGet(name))
    ELSE LET const_value == evaluate_constant(st.table, value) IN
         IF const_value = Panic THEN Panicked(st)
         ELSE IF IsSome(const_value)
         THEN IF TypesMatch(type_name, const_value[2])
              THEN InsertEntry(st, SymbolEntry(name, Constant, type_name, const_value[2],
                                               SourceMapGet(name)))
              ELSE PushError(st, <<"TypeMismatch", name, type_name, const_value[2]>>,
                             SourceMapGet(name))
         ELSE PushError(st, <<"CouldNotEvaluateConstant", name>>, SourceMapGet(name))

process_declaration(st, decl) ==
    IF decl[1] = "VariableDecl"
    THEN DeclareNames(st, decl[2], decl[3])
    ELSE DeclareConst(st, decl[2], decl[3], decl[4])

\* a mutation: only the first error is reported
AnalyzeResultFirstOnly(errs) == IF errs = <<>> THEN <<"Ok">> ELSE <<"Err", <<errs[1]>>>>

\* the value analyze returns
AnalyzeResult(errs) == IF errs = <<>> THEN <<"Ok">> ELSE <<"Err", errs>>

-----------------------------------------------------------------------------
(* main.rs: the source map *)

\* for token in &tokens { if Identifier(name) { source_map.insert(name, (line, column)) } }
RECURSIVE BuildSourceMap(_)
BuildSourceMap(toks) ==
    IF toks = <<>> THEN [n \in {} |-> <<0, 0>>]
    ELSE LET m == BuildSourceMap(SubSeq(toks, 1, Len(toks) - 1))
             tk == toks[Len(toks)]
         IN (tk[1] :> <<tk[2], tk[3]>>) @@ m

\* the identifier tokens of a text holding these names, one per line
TokensOf(names) == [i \in 1..Len(names) |-> <<names[i], i, 1>>]

-----------------------------------------------------------------------------
(* quadruple.rs: the generator.  Its methods are functions of               *)
(* g = [quads, temp_count, label_count, panic]; a method that returns an    *)
(* Option<Operand> gives [g, r]: the generator after the call and the       *)
(* result.                                                                  *)

OperandVariable(name) == <<"Variable", name>>
OperandConstant(text) == <<"Constant", text>>
ArrayElement(name, index) == <<"ArrayElement", name, index>>
Temp(id) == <<"Temp", id>>
Label(id) == <<"Label", id>>
StringLiteral(s) == <<"StringLiteral", s>>

Quadruple(operator, arg1, arg2, result) ==
    [operator |-> operator, arg1 |-> arg1, arg2 |-> arg2, result |-> result]

\* QuadrupleGenerator::new()
NewGenerator == [quads |-> <<>>, temp_count |-> 0, label_count |-> 0, panic |-> FALSE]

\* n.to_string() of an i32
IntText(n) == ToString(n)

\* the decimal digits of r / d below the point (d a power of two, 0 <= r < d)
RECURSIVE FracDigits(_, _)
FracDigits(r, d) ==
    IF r = 0 THEN "" ELSE ToString((10 * r) \div d) \o FracDigits((10 * r) % d, d)

\* n.to_string() of an f32: a whole value prints without a point
FloatText(n, d) ==
    LET m == IF n < 0 THEN -n ELSE n
        sign == IF n < 0 THEN "-" ELSE ""
    IN IF m % d = 0 THEN sign \o ToString(m \div d)
       ELSE sign \o ToString(m \div d) \o "." \o FracDigits(m % d, d)

\* a mutation: the counter is not advanced
new_temp_reusing(g) == [g |-> g, r |-> Temp(g.temp_count)]

new_temp(g) == [g |-> [g EXCEPT !.temp_count = @ + 1], r |-> Temp(g.temp_count)]

\* a mutation: the counter is not advanced
new_label_reusing(g) == [g |-> g, r |-> Label(g.label_count)]

new_label(g) == [g |-> [g EXCEPT !.label_count = @ + 1], r |-> Label(g.label_count)]

emit(g, operator, arg1, arg2, result) ==
    [g EXCEPT !.quads = Append(@, Quadruple(operator, arg1, arg2, result))]

\* match op { BinaryOp::Add => Operator::Add, ... }: each to its namesake
OperatorOf(op) == op

\* Option::unwrap of a lowered operand: None panics
Unwrapped(x) == IF IsSome(x.r) THEN x ELSE [g |-> Panicked(x.g), r |-> None]

RECURSIVE generate_from_expression(_, _)
generate_from_expression(g, expr) ==
    IF g.panic THEN [g |-> g, r |-> None]
    ELSE CASE expr[1] = "Var" /\ expr[2][1] = "Simple" ->
                [g |-> g, r |-> Some(OperandVariable(expr[2][2]))]
           [] expr[1] = "Var" /\ expr[2][1] = "Array" ->
                LET index_result == Unwrapped(generate_from_expression(g, expr[2][3])) IN
                IF index_result.g.panic THEN index_result
                ELSE [g |-> index_result.g,
                      r |-> Some(ArrayElement(expr[2][2], index_result.r[2]))]
           [] expr[1] = "Integer" -> [g |-> g, r |-> Some(OperandConstant(IntText(expr[2])))]
           [] expr[1] = "Float" ->
                [g |-> g, r |-> Some(OperandConstant(FloatText(expr[2], expr[3])))]
           [] expr[1] = "String" -> [g |-> g, r |-> Some(StringLiteral(expr[2]))]
           [] expr[1] = "Binary" ->
                LET left_result == Unwrapped(generate_from_expression(g, expr[2])) IN
                IF left_result.g.panic THEN left_result
                ELSE LET right_result ==
                           Unwrapped(generate_from_expression(left_result.g, expr[4]))
                     IN IF right_result.g.panic THEN right_result
                        ELSE LET result == new_temp(right_result.g) IN
                             [g |-> emit(result.g, OperatorOf(expr[3]), left_result.r,
                                         right_result.r, Some(result.r)),
                              r |-> Some(result.r)]
           [] expr[1] = "Not" ->
                LET expr_result == Unwrapped(generate_from_expression(g, expr[2])) IN
                IF expr_result.g.panic THEN expr_result
                ELSE LET result == new_temp(expr_result.g) IN
                     [g |-> emit(result.g, "Not", expr_result.r, None, Some(result.r)),
                      r |-> Some(result.r)]
           [] OTHER -> [g |-> g, r |-> None]

generate_from_condition(g, condition) == generate_from_expression(g, condition)

\* Statement::Assignment: the value, then the target, then the Assign
GenerateAssignment(g, target, value) ==
    LET expr_result == generate_from_expression(g, value) IN
    IF expr_result.g.panic THEN expr_result.g
    ELSE IF target[1] = "Simple"
    THEN emit(expr_result.g, "Assign", expr_result.r, None,
              Some(OperandVariable(target[2])))
    ELSE LET index_result == Unwrapped(generate_from_expression(expr_result.g, target[3])) IN
         IF index_result.g.panic THEN index_result.g
         ELSE emit(index_result.g, "Assign", expr_result.r, None,
                   Some(ArrayElement(target[2], index_result.r[2])))

\* Statement::Output: one Output per expression
RECURSIVE GenerateOutputs(_, _)
GenerateOutputs(g, expressions) ==
    IF expressions = <<>> \/ g.panic THEN g
    ELSE LET result == generate_from_expression(g, Head(expressions)) IN
         IF result.g.panic THEN result.g
         ELSE GenerateOutputs(emit(result.g, "Output", result.r, None, None),
                              Tail(expressions))

RECURSIVE generate_from_statement(_, _), GenerateStatements(_, _)

\* Statement::IfElse
GenerateIfElse(g, condition, if_branch, else_branch) ==
    LET cond_result == generate_from_condition(g, condition)
        else_label == new_label(cond_result.g)
        end_label == new_label(else_label.g)
        g1 == emit(end_label.g, "IfFalse", cond_result.r, None, Some(else_label.r))
        g2 == GenerateStatements(g1, if_branch)
        g3 == emit(g2, "Goto", None, None, Some(end_label.r))
        g4 == emit(g3, "Label", None, None, Some(else_label.r))
        g5 == GenerateStatements(g4, else_branch)
    IN IF cond_result.g.panic THEN cond_result.g
       ELSE IF g2.panic THEN g2
       ELSE IF g5.panic THEN g5
       ELSE emit(g5, "Label", None, None, Some(end_label.r))

\* Statement::DoWhile: start_label and end_label are both allocated
GenerateDoWhile(g, condition, body) ==
    LET start_label == new_label(g)
        end_label == new_label(start_label.g)
        g1 == emit(end_label.g, "Label", None, None, Some(start_label.r))
        g2 == GenerateStatements(g1, body)
        cond_result == generate_from_condition(g2, condition)
    IN IF g2.panic THEN g2
       ELSE IF cond_result.g.panic THEN cond_result.g
       ELSE emit(cond_result.g, "IfTrue", cond_result.r, None, Some(start_label.r))

\* Statement::For
GenerateFor(g, var, start, end, step, body) ==
    LET loop_var == OperandVariable(var)
        start_result == generate_from_expression(g, start)
        end_result == generate_from_expression(start_result.g, end)
        step_result == generate_from_expression(end_result.g, step)
        loop_start == new_label(step_result.g)
        loop_end == new_label(loop_start.g)
        g1 == emit(loop_end.g, "Assign", start_result.r, None, Some(loop_var))
        g2 == emit(g1, "Label", None, None, Some(loop_start.r))
        cond_temp == new_temp(g2)
        g3 == emit(cond_temp.g, "GreaterThan", Some(loop_var), end_result.r,
                   Some(cond_temp.r))
        g4 == emit(g3, "IfTrue", Some(cond_temp.r), None, Some(loop_end.r))
        g5 == GenerateStatements(g4, body)
        new_val == new_temp(g5)
        g6 == emit(new_val.g, "Add", Some(loop_var), step_result.r, Some(new_val.r))
        g7 == emit(g6, "Assign", Some(new_val.r), None, Some(loop_var))
        g8 == emit(g7, "Goto", None, None, Some(loop_start.r))
    IN IF step_result.g.panic THEN step_result.g
       ELSE IF g5.panic THEN g5
       ELSE emit(g8, "Label", None, None, Some(loop_end.r))

generate_from_statement(g, stmt) ==
    IF g.panic THEN g
    ELSE CASE stmt[1] = "Assignment" -> GenerateAssignment(g, stmt[2], stmt[3])
           [] stmt[1] = "IfElse" -> GenerateIfElse(g, stmt[2], stmt[3], stmt[4])
           [] stmt[1] = "DoWhile" -> GenerateDoWhile(g, stmt[2], stmt[3])
           [] stmt[1] = "For" ->
                GenerateFor(g, stmt[2], stmt[3], stmt[4], stmt[5], stmt[6])
           [] stmt[1] = "Input" ->
                emit(g, "Input", None, None, Some(OperandVariable(stmt[2])))
           [] stmt[1] = "Output" -> GenerateOutputs(g, stmt[2])

\* for stmt in ... { self.generate_from_statement(stmt) }
GenerateStatements(g, stmts) ==
    IF stmts = <<>> THEN g
    ELSE GenerateStatements(generate_from_statement(g, Head(stmts)), Tail(stmts))

\* generate_from_declaration emits nothing
generate_from_declaration(g, decl) == g

-----------------------------------------------------------------------------
(* The programs analysed: bounded universes of declarations and statements *)

Names == {"x", "a", "c"}

X == Var(Simple("x"))
Div0 == Binary(Integer(5), "Divide", Integer(0))
DivX == Binary(Integer(5), "Divide", X)

NameLists == {<<"x">>, <<"a">>, <<"x", "x">>, <<"x", "a">>}
TypeSpecs == {TypeE("Int"), TypeE("Float"), ArrayType("Int", ArrSize)}
VariableDecls == {VariableDecl(ns, ts) : ns \in NameLists, ts \in TypeSpecs}

MinDivMinusOne == Binary(Integer(I32Min), "Divide", Integer(-1))
ConstInits == {Integer(5), FloatE(3, 2), Var(Simple("c")), X, MinDivMinusOne}
ConstDecls ==
    {ConstDecl(n, tn, v) : n \in {"c", "x"}, tn \in {"Int", "Float", "Bool"}, v \in ConstInits}

ValueExprs ==
    {Integer(0), Integer(5), StringE("s"), X, Div0, DivX, Literal(Div0),
     Var(ArrayVar("a", Integer(ArrSize))), Var(ArrayVar("c", Div0))}
Indices == {Integer(-1), Integer(0), Integer(ArrSize - 1), Integer(ArrSize), X}

SimpleAssignments == {Assignment(Simple(n), v) : n \in Names, v \in ValueExprs}
ArrayAssignments ==
    {Assignment(ArrayVar("a", i), v) : i \in Indices, v \in {Integer(5), Div0, X}}
    \cup {Assignment(ArrayVar("x", Integer(0)), v) : v \in {Integer(5), Div0}}
Assignments == SimpleAssignments \cup ArrayAssignments

Bodies == {<<>>, <<Assignment(Simple("x"), Integer(0))>>,
           <<Assignment(Simple("c"), Integer(0)), Assignment(Simple("x"), DivX)>>}
IfElses == {IfElse(cnd, b1, b2) : cnd \in {X}, b1 \in Bodies, b2 \in Bodies}
DoWhiles == {DoWhile(cnd, b) : cnd \in {X, Div0}, b \in Bodies}
Fors ==
    {For(n, st, Integer(5), Integer(1), <<>>) : n \in Names, st \in {Integer(0), X}}
    \cup {For("x", Integer(0), DivX, Integer(1), b) : b \in Bodies}
Inputs == {Input(n) : n \in Names}
Outputs == {Output(es) : es \in {<<>>, <<X>>, <<StringE("s"), Div0>>}}

\* what `last` keeps of a declaration or statement
Summary(item) ==
    CASE item[1] = "Assignment" -> <<"Assignment", item[2][1], item[2][2]>>
      [] item[1] \in {"For", "Input", "ConstDecl"} -> <<item[1], item[2]>>
      [] OTHER -> <<item[1]>>

-----------------------------------------------------------------------------
(* SemanticAnalyzer::analyze, one loop iteration per step *)

State == [table |-> symbol_table, errors |-> errors, panic |-> FALSE]

\* the caller's map: x and a have a position, c has none
SourceMaps == {BuildSourceMap(TokensOf(<<"x", "a", "x">>))}

\* SemanticAnalyzer::new(), then analyze stores the caller's source map
Init ==
    /\ symbol_table = EmptyTable
    /\ errors = <<>>
    /\ source_map \in SourceMaps
    /\ overflow_checks \in BOOLEAN
    /\ pc = "decls"
    /\ steps = 0
    /\ ret = <<"none">>
    /\ last = <<"none">>
    /\ tokens = <<>>
    /\ occ = 0
    /\ quads = <<>>
    /\ temp_count = 0
    /\ label_count = 0

\* the effect of one loop iteration whose body left the analyzer in st
Advance(st, item, phase) ==
    /\ symbol_table' = st.table
    /\ errors' = st.errors
    /\ pc' = IF st.panic THEN "panicked" ELSE phase
    /\ steps' = steps + 1
    /\ last' = Summary(item)
    /\ UNCHANGED <<source_map, overflow_checks, ret, generator>>

\* for decl in &program.declarations { self.process_declaration(decl) }
DeclStep(decls) ==
    /\ pc = "decls"
    /\ steps < MaxSteps
    /\ \E decl \in decls : Advance(process_declaration(State, decl), decl, "decls")
    /\ UNCHANGED <<tokens, occ>>

\* for stmt in &program.statements { self.process_statement(stmt) }
StmtStep(stmts) ==
    /\ pc \in {"decls", "stmts"}
    /\ steps < MaxSteps
    /\ \E stmt \in stmts : Advance(process_statement(State, stmt), stmt, "stmts")
    /\ UNCHANGED <<tokens, occ>>

VariableDeclStep == DeclStep(VariableDecls)
ConstDeclStep == DeclStep(ConstDecls)
AssignmentStep == StmtStep(Assignments)
IfElseStep == StmtStep(IfElses)
DoWhileStep == StmtStep(DoWhiles)
ForStep == StmtStep(Fors)
InputStep == StmtStep(Inputs)
OutputStep == StmtStep(Outputs)

\* if self.errors.is_empty() { Ok(()) } else { Err(self.errors.clone()) }
Return ==
    /\ pc \in {"decls", "stmts"}
    /\ pc' = "done"
    /\ ret' = AnalyzeResult(errors)
    /\ UNCHANGED <<symbol_table, errors, source_map, overflow_checks, steps, last, tokens, occ,
                   generator>>

Next ==
    \/ VariableDeclStep
    \/ ConstDeclStep
    \/ AssignmentStep
    \/ IfElseStep
    \/ DoWhileStep
    \/ ForStep
    \/ InputStep
    \/ OutputStep
    \/ Return

Spec == Init /\ [][Next]_vars

-----------------------------------------------------------------------------
(* SpecMain: main.rs builds the source map from the identifier tokens of   *)
(* the text and hands it to analyze.  The program analysed is the one the  *)
(* tokens spell: each declared or assigned name is the next token.         *)

RECURSIVE SeqsUpTo(_, _)
SeqsUpTo(S, n) ==
    IF n = 0 THEN {<<>>}
    ELSE LET shorter == SeqsUpTo(S, n - 1) IN
         shorter \cup {Append(q, e) : q \in {r \in shorter : Len(r) = n - 1}, e \in S}

TokenStreams == {TokensOf(ns) : ns \in SeqsUpTo(Names, MaxTokens)}

\* the names of the next k tokens
NextNames(k) == [i \in 1..k |-> tokens[occ + i][1]]
\* where the lexer saw the i-th of the tokens still to come
NextPos(i) == <<tokens[occ + i][2], tokens[occ + i][3]>>

InitMain ==
    /\ symbol_table = EmptyTable
    /\ errors = <<>>
    /\ tokens \in TokenStreams
    /\ source_map = BuildSourceMap(tokens)
    /\ overflow_checks = TRUE
    /\ pc = "decls"
    /\ steps = 0
    /\ ret = <<"none">>
    /\ last = <<"none">>
    /\ occ = 0
    /\ quads = <<>>
    /\ temp_count = 0
    /\ label_count = 0

MainStep(st, item, phase, k) ==
    /\ Advance(st, item, phase)
    /\ occ' = occ + k
    /\ UNCHANGED tokens

MainVariableDecl ==
    /\ pc = "decls"
    /\ \E k \in 1..2, ts \in {TypeE("Int"), ArrayType("Float", ArrSize)} :
          /\ occ + k <= Len(tokens)
          /\ LET decl == VariableDecl(NextNames(k), ts) IN
             MainStep(process_declaration(State, decl), decl, "decls", k)

MainConstDecl ==
    /\ pc = "decls"
    /\ occ < Len(tokens)
    /\ \E v \in {Integer(5), FloatE(3, 2)} :
          LET decl == ConstDecl(NextNames(1)[1], "Int", v) IN
          MainStep(process_declaration(State, decl), decl, "decls", 1)

MainAssignment ==
    /\ pc \in {"decls", "stmts"}
    /\ occ < Len(tokens)
    /\ \E v \in {Integer(0)} :
          LET stmt == Assignment(Simple(NextNames(1)[1]), v) IN
          MainStep(process_statement(State, stmt), stmt, "stmts", 1)

MainInput ==
    /\ pc \in {"decls", "stmts"}
    /\ occ < Len(tokens)
    /\ LET stmt == Input(NextNames(1)[1]) IN
       MainStep(process_statement(State, stmt), stmt, "stmts", 1)

MainReturn ==
    /\ occ = Len(tokens)
    /\ Return

NextMain ==
    \/ MainVariableDecl
    \/ MainConstDecl
    \/ MainAssignment
    \/ MainInput
    \/ MainReturn

SpecMain == InitMain /\ [][NextMain]_vars

-----------------------------------------------------------------------------
(* SpecTable: the SymbolTable operations called directly, in any order     *)
(* and with any arguments                                                  *)

TableValues == {Undefined, IntV(5)}
TableEntries ==
    {SymbolEntry(n, Variable, "Int", Undefined, <<1, 1>>) : n \in {"x", "a"}}
    \cup {SymbolEntry(n, ArrayEntity(ArrSize), "Float",
                      ArrayV([i \in 1..ArrSize |-> Undefined]), <<2, 1>>) : n \in {"x", "a"}}
    \cup {SymbolEntry("x", Constant, "Int", IntV(5), <<3, 1>>)}
\* a usize index: in range, one past the end, and beyond
TableIndices == 0..(ArrSize + 1)

Returned(r) == IF r.ok THEN <<"Ok">> ELSE <<"Err", r.err>>

\* SymbolTable::new()
InitTable ==
    /\ symbol_table = EmptyTable
    /\ errors = <<>>
    /\ source_map = [n \in {} |-> <<0, 0>>]
    /\ overflow_checks = TRUE
    /\ pc = "table"
    /\ steps = 0
    /\ ret = <<"none">>
    /\ last = <<"none">>
    /\ tokens = <<>>
    /\ occ = 0
    /\ quads = <<>>
    /\ temp_count = 0
    /\ label_count = 0

TableCall(r, call) ==
    /\ pc = "table"
    /\ symbol_table' = r.table
    /\ ret' = Returned(r)
    /\ last' = call
    /\ UNCHANGED <<errors, source_map, overflow_checks, pc, steps, tokens, occ, generator>>

TableInsert ==
    \E entry \in TableEntries :
        TableCall(insert(symbol_table, entry), <<"insert", entry>>)

TableUpdateValue ==
    \E name \in Names, value \in TableValues :
        TableCall(update_value(symbol_table, name, value), <<"update_value", name, value>>)

TableUpdateArrayElement ==
    \E name \in Names, index \in TableIndices, value \in TableValues :
        TableCall(update_array_element(symbol_table, name, index, value),
                  <<"update_array_element", name, index, value>>)

TableLookup ==
    \E name \in Names :
        /\ pc = "table"
        /\ ret' = lookup(symbol_table, name)
        /\ last' = <<"lookup", name>>
        /\ UNCHANGED <<symbol_table, errors, source_map, overflow_checks, pc, steps,
                       tokens, occ, generator>>

NextTable ==
    \/ TableInsert
    \/ TableUpdateValue
    \/ TableUpdateArrayElement
    \/ TableLookup

SpecTable == InitTable /\ [][NextTable]_vars

-----------------------------------------------------------------------------
(* SpecGen: QuadrupleGenerator::generate_from_program, one statement of the *)
(* program per step.  The expressions include the shapes the generator has  *)
(* no arm for: the literal-wrapper and the type tokens.                     *)

XPlusOne == Binary(X, "Add", Integer(1))
WrappedOne == Literal(Integer(1))
\* expressions that lower to an operand
GenOperands == {X, Integer(1), FloatE(3, 2), StringE("s"), XPlusOne, Not(X),
                Var(ArrayVar("a", XPlusOne))}
\* expressions with a shape the generator cannot interpret, bare or as an operand
GenOpaque == {WrappedOne, TypeE("Int"), Binary(WrappedOne, "Add", X), Not(WrappedOne),
              Var(ArrayVar("a", TypeE("Int")))}
GenExprs == GenOperands \cup GenOpaque
GenTargets == {Simple("x"), ArrayVar("a", Integer(0)), ArrayVar("a", Not(X)),
               ArrayVar("a", WrappedOne)}
GenAssignments == {Assignment(t, v) : t \in GenTargets, v \in GenExprs}

GenConditions == {X, Binary(X, "LessThan", Integer(1)), WrappedOne, Not(WrappedOne)}
GenBodies == {<<>>,
              <<Assignment(Simple("x"), XPlusOne)>>,
              <<Assignment(ArrayVar("a", WrappedOne), X)>>,
              <<DoWhile(Not(X), <<Input("x")>>), Output(<<X>>)>>}
GenIfElses == {IfElse(c, b1, b2) : c \in GenConditions, b1 \in GenBodies, b2 \in GenBodies}
GenDoWhiles == {DoWhile(c, b) : c \in GenConditions, b \in GenBodies}
GenFors == {For("x", start, X, step, b) :
               start \in {Integer(1), XPlusOne, WrappedOne},
               step \in {Integer(1), Not(WrappedOne)}, b \in GenBodies}
GenInputs == {Input("x"), Input("a")}
GenOutputs == {Output(es) : es \in {<<>>, <<XPlusOne, StringE("s")>>, <<WrappedOne>>,
                                    <<Not(WrappedOne)>>}}

\* the statements the runs of SpecGen are made of
RunAssignments ==
    {Assignment(t, v) : t \in {Simple("x"), ArrayVar("a", Not(X))},
                        v \in {Integer(1), XPlusOne, WrappedOne}}
    \cup {Assignment(ArrayVar("a", WrappedOne), X)}
RunBodies == {<<>>, <<Assignment(Simple("x"), XPlusOne)>>}
RunIfElses ==
    {IfElse(c, b1, b2) : c \in {X, Binary(X, "LessThan", Integer(1))},
                         b1 \in RunBodies, b2 \in RunBodies}
    \cup {IfElse(Not(WrappedOne), <<>>, <<>>)}
RunDoWhiles == {DoWhile(c, b) : c \in {Not(X), WrappedOne}, b \in RunBodies}
RunFors ==
    {For("x", Integer(1), X, Integer(1), b) :
        b \in RunBodies \cup {<<DoWhile(Not(X), <<Input("x")>>), Output(<<X>>)>>}}
RunOutputs == {Output(<<>>), Output(<<XPlusOne, StringE("s")>>)}

Generator == [quads |-> quads, temp_count |-> temp_count, label_count |-> label_count,
              panic |-> FALSE]

\* QuadrupleGenerator::new(), then generate_from_program
InitGen ==
    /\ symbol_table = EmptyTable
    /\ errors = <<>>
    /\ source_map = [n \in {} |-> <<0, 0>>]
    /\ overflow_checks = TRUE
    /\ pc = "generate"
    /\ steps = 0
    /\ ret = <<"none">>
    /\ last = <<"none">>
    /\ tokens = <<>>
    /\ occ = 0
    /\ quads = <<>>
    /\ temp_count = 0
    /\ label_count = 0

\* one iteration of the statement loop; a panic ends the run and nothing of
\* the generator is seen afterwards
GenStep(stmt) ==
    LET g == generate_from_statement(Generator, stmt) IN
    /\ pc = "generate"
    /\ steps < MaxSteps
    /\ steps' = steps + 1
    /\ last' = <<"generate", stmt>>
    /\ IF g.panic
       THEN pc' = "panicked" /\ UNCHANGED generator
       ELSE /\ pc' = "generate"
            /\ quads' = g.quads
            /\ temp_count' = g.temp_count
            /\ label_count' = g.label_count
    /\ UNCHANGED <<symbol_table, errors, source_map, overflow_checks, ret, tokens, occ>>

\* for decl in &program.declarations { self.generate_from_declaration(decl) }
GenDeclaration ==
    /\ pc = "generate"
    /\ steps = 0
    /\ last = <<"none">>
    /\ \E decl \in VariableDecls :
          LET g == generate_from_declaration(Generator, decl) IN
          /\ quads' = g.quads
          /\ temp_count' = g.temp_count
          /\ label_count' = g.label_count
          /\ last' = <<"declaration", Summary(decl)>>
    /\ UNCHANGED <<symbol_table, errors, source_map, overflow_checks, pc, steps, ret,
                   tokens, occ>>

GenAssignment == \E stmt \in RunAssignments : GenStep(stmt)
GenIfElse == \E stmt \in RunIfElses : GenStep(stmt)
GenDoWhile == \E stmt \in RunDoWhiles : GenStep(stmt)
GenFor == \E stmt \in RunFors : GenStep(stmt)
GenInput == \E stmt \in GenInputs : GenStep(stmt)
GenOutput == \E stmt \in RunOutputs : GenStep(stmt)

\* generate_from_program returns
GenReturn ==
    /\ pc = "generate"
    /\ pc' = "generated"
    /\ UNCHANGED <<symbol_table, errors, source_map, overflow_checks, steps, ret, last,
                   tokens, occ, generator>>

NextGen ==
    \/ GenDeclaration
    \/ GenAssignment
    \/ GenIfElse
    \/ GenDoWhile
    \/ GenFor
    \/ GenInput
    \/ GenOutput
    \/ GenReturn

SpecGen == InitGen /\ [][NextGen]_vars

-----------------------------------------------------------------------------
(* The properties checked *)

\* the errors a call that left the analyzer in r has appended
Appended(r) == SubSeq(r.errors, Len(errors) + 1, Len(r.errors))
CountKind(es, kind) == Cardinality({i \in 1..Len(es) : es[i].message[1] = kind})
Occurs(e, es) == \E i \in 1..Len(es) : es[i] = e
ErrorAt(message, name) == SemanticError(message, SourceMapGet(name))
LastError == errors[Len(errors)]

\* C1 (as claimed): a step of analyze never changes a symbol-table entry whose
\* entity type is Constant: the entry keeps the value it was inserted with,
\* also across a For or an Input statement naming the constant.
C1_Original ==
    [][\A n \in DOMAIN symbol_table :
          symbol_table[n].entity_type = Constant => symbol_table'[n] = symbol_table[n]]_vars

\* C2 (as claimed): in every reachable state each entry whose entity type is
\* Array{size} holds a Value::Array of exactly size elements.
C2_Original ==
    \A n \in DOMAIN symbol_table :
        symbol_table[n].entity_type[1] = "Array" =>
            /\ symbol_table[n].value[1] = "Array"
            /\ Len(symbol_table[n].value[2]) = symbol_table[n].entity_type[2]

\* C3: whenever a name is a declared Constant, the statement name := value, for
\* every value expression, appends exactly one error, ConstAssignment at the
\* name's position, and leaves the whole symbol table as it was.
C3_ConstAssignment ==
    \A n \in DOMAIN symbol_table :
        symbol_table[n].entity_type = Constant =>
            \A v \in ValueExprs :
                LET r == process_statement(State, Assignment(Simple(n), v)) IN
                /\ r.errors = Append(errors, ErrorAt(<<"ConstAssignment", n>>, n))
                /\ r.table = symbol_table
                /\ ~r.panic

\* C3 witness: an assignment to a declared constant has just been rejected
C3_Witness ==
    /\ last[1] = "Assignment"
    /\ last[2] = "Simple"
    /\ last[3] \in DOMAIN symbol_table
    /\ symbol_table[last[3]].entity_type = Constant
    /\ errors # <<>>
    /\ LastError.message = <<"ConstAssignment", last[3]>>

\* the Divide nodes of an expression, wherever they stand in the tree, whose
\* right operand is the literal zero or a variable whose tracked value is zero
IsLiteralZero(e) ==
    \/ e[1] = "Integer" /\ e[2] = 0
    \/ e[1] = "Float" /\ e[2] = 0
IsTrackedZero(t, e) ==
    /\ e[1] = "Var"
    /\ e[2][1] = "Simple"
    /\ e[2][2] \in DOMAIN t
    /\ IsZeroValue(t[e[2][2]].value)
EvaluatesToZero(t, e) ==
    LET v == evaluate_expression(t, e) IN IsSome(v) /\ IsZeroValue(v[2])

RECURSIVE ZeroDivides(_, _)
ZeroDivides(t, e) ==
    CASE e[1] = "Binary" ->
            ZeroDivides(t, e[2]) + ZeroDivides(t, e[4])
            + (IF e[3] = "Divide" /\ (IsLiteralZero(e[4]) \/ IsTrackedZero(t, e[4]))
               THEN 1 ELSE 0)
      [] e[1] \in {"Not", "Literal"} -> ZeroDivides(t, e[2])
      [] e[1] = "Var" /\ e[2][1] = "Array" -> ZeroDivides(t, e[2][3])
      [] OTHER -> 0

\* the Divide nodes the claim says nothing about: the divisor evaluates to
\* zero without being a literal or a variable
RECURSIVE OtherZeroDivides(_, _)
OtherZeroDivides(t, e) ==
    CASE e[1] = "Binary" ->
            OtherZeroDivides(t, e[2]) + OtherZeroDivides(t, e[4])
            + (IF /\ e[3] = "Divide"
                  /\ ~(IsLiteralZero(e[4]) \/ IsTrackedZero(t, e[4]))
                  /\ EvaluatesToZero(t, e[4])
               THEN 1 ELSE 0)
      [] e[1] \in {"Not", "Literal"} -> OtherZeroDivides(t, e[2])
      [] e[1] = "Var" /\ e[2][1] = "Array" -> OtherZeroDivides(t, e[2][3])
      [] OTHER -> 0

CheckedExprs ==
    ValueExprs \cup {Binary(X, "Divide", FloatE(0, 1)), Not(DivX), Binary(Div0, "Add", DivX)}

\* C4 (as claimed): check_expression appends one DivisionByZero error for every
\* Divide node of the expression whose right operand is the literal zero or a
\* variable whose tracked value is zero, and none for the other Divide nodes.
C4_Original ==
    \A e \in CheckedExprs :
        OtherZeroDivides(symbol_table, e) = 0 =>
            CountKind(Appended(check_expression(State, e)), "DivisionByZero")
                = ZeroDivides(symbol_table, e)

\* C5 (as claimed): for a name declared as an array of size N and an index that
\* evaluate_constant gives as Int i, name[index] := value appends the bounds
\* error and writes nothing when i < 0 or i >= N; otherwise it appends no
\* bounds error, update_array_element succeeds, element i alone is replaced
\* and the array keeps its N elements.
C5_Original ==
    \A n \in DOMAIN symbol_table :
        symbol_table[n].entity_type[1] = "Array" =>
            \A index \in Indices, v \in {Integer(5), X, Div0} :
                LET size == symbol_table[n].entity_type[2]
                    iv == evaluate_constant(symbol_table, index)
                    ev == evaluate_expression(symbol_table, v)
                    w == IF IsSome(ev) THEN ev[2] ELSE Undefined
                    r == process_statement(State, Assignment(ArrayVar(n, index), v))
                IN (IsSome(iv) /\ iv[2][1] = "Int") =>
                     LET i == iv[2][2]
                         bounds == ErrorAt(<<"ArrayIndexOutOfBounds", n, i, size>>, n)
                     IN IF i < 0 \/ i >= size
                        THEN Occurs(bounds, Appended(r)) /\ r.table = symbol_table
                        ELSE /\ ~Occurs(bounds, Appended(r))
                             /\ update_array_element(symbol_table, n, i, w).ok
                             /\ r.table[n].value[1] = "Array"
                             /\ Len(r.table[n].value[2]) = size
                             /\ r.table[n].value[2][i + 1] = w
                             /\ \A j \in 1..size :
                                   j # i + 1 =>
                                     r.table[n].value[2][j] = symbol_table[n].value[2][j]

\* C6 (as claimed): declaring again a name that is already declared, or listing
\* a name twice in one VariableDecl, appends exactly one DoubleDeclaration
\* error, positioned where the second occurrence of the name stands in the
\* text, and the entry of the first declaration stays as it is.
C6_Original ==
    pc = "decls" =>
        \A ts \in TypeSpecs :
            /\ (occ + 1 <= Len(tokens) /\ tokens[occ + 1][1] \in DOMAIN symbol_table) =>
                 LET n == tokens[occ + 1][1]
                     r == process_declaration(State, VariableDecl(<<n>>, ts))
                     e == r.errors[Len(r.errors)]
                 IN /\ Len(r.errors) = Len(errors) + 1
                    /\ e.message[1] = "DoubleDeclaration"
                    /\ <<e.line, e.column>> = NextPos(1)
                    /\ r.table = symbol_table
            /\ (/\ occ + 2 <= Len(tokens)
                /\ tokens[occ + 1][1] = tokens[occ + 2][1]
                /\ tokens[occ + 1][1] \notin DOMAIN symbol_table) =>
                 LET n == tokens[occ + 1][1]
                     r == process_declaration(State, VariableDecl(<<n, n>>, ts))
                     e == r.errors[Len(r.errors)]
                 IN /\ Len(r.errors) = Len(errors) + 1
                    /\ e.message[1] = "DoubleDeclaration"
                    /\ <<e.line, e.column>> = NextPos(2)
                    /\ r.table = process_declaration(State, VariableDecl(<<n>>, ts)).table

\* the statements that may follow an assignment
Followers == {Assignment(Simple("x"), Div0), Input("a")}
UndeclaredTargets(n) == {Simple(n), ArrayVar(n, Integer(0)), ArrayVar(n, Integer(ArrSize)), ArrayVar(n, X)}
AssignedValues == {Integer(5), StringE("s"), Div0, X}

\* C7: while analyze is in its loops, an assignment, to a scalar or to an array
\* element, whose target name is not declared appends exactly one error,
\* UndeclaredIdentifier at the name's position, leaves the symbol table as it
\* was, and the statement after it is processed as it would be had only that
\* error been appended.
C7_UndeclaredTarget ==
    pc \in {"decls", "stmts"} =>
        \A n \in Names \ DOMAIN symbol_table :
            \A target \in UndeclaredTargets(n), v \in AssignedValues :
                LET a == Assignment(target, v)
                    r == process_statement(State, a)
                IN /\ r.errors = Append(errors, ErrorAt(<<"UndeclaredIdentifier", n>>, n))
                   /\ r.table = symbol_table
                   /\ ~r.panic
                   /\ \A s \in Followers :
                         ProcessStatements(State, <<a, s>>) = process_statement(r, s)

\* C7 witness: an assignment to an undeclared name has just been reported
C7_Witness ==
    /\ last[1] = "Assignment"
    /\ last[3] \notin DOMAIN symbol_table
    /\ pc = "stmts"
    /\ errors # <<>>
    /\ LastError.message = <<"UndeclaredIdentifier", last[3]>>

IsPrefix(p, q) == Len(p) <= Len(q) /\ SubSeq(q, 1, Len(p)) = p

\* C8: analyze returns Ok exactly when the error list is empty and otherwise
\* Err with the whole list; no step removes or reorders an error already in
\* the list; and a step that appends an error leaves analyze in its loops.
C8_Analyze ==
    /\ [](pc = "done" =>
            /\ (ret = <<"Ok">>) <=> (errors = <<>>)
            /\ errors # <<>> => ret = <<"Err", errors>>)
    /\ [][/\ IsPrefix(errors, errors')
          /\ (errors' # errors => pc' \in {"decls", "stmts"})]_vars

\* C8 witness: analyze has returned Err with two or more errors
C8_Witness ==
    /\ pc = "done"
    /\ ret[1] = "Err"
    /\ Len(errors) >= 2

\* what C9 says of one ConstDecl processed in the current state
ConstDeclOutcome(decl) ==
    LET n == decl[2]
        cv == evaluate_constant(symbol_table, decl[4])
        r == process_declaration(State, decl)
    IN IF /\ decl[3] \in {"Int", "Float"}
          /\ IsSome(cv)
          /\ cv[2][1] = decl[3]
       THEN /\ ~r.panic
            /\ n \in DOMAIN r.table
            /\ r.table[n] = SymbolEntry(n, Constant, decl[3], cv[2], SourceMapGet(n))
            /\ r.table # symbol_table
            /\ r.errors = errors
       ELSE /\ ~r.panic
            /\ r.table = symbol_table
            /\ n \notin DOMAIN r.table
            /\ r.errors =
                 Append(errors,
                    ErrorAt(IF decl[3] \notin {"Int", "Float"} THEN <<"UnknownType", decl[3]>>
                            ELSE IF ~IsSome(cv) THEN <<"CouldNotEvaluateConstant", n>>
                            ELSE <<"TypeMismatch", n, decl[3], cv[2]>>, n))

\* C9 (as claimed): a ConstDecl inserts a Constant entry iff the type name is
\* Int or Float, the initializer is evaluable and its value has the declared
\* type; otherwise it appends one error and the name remains undeclared.
C9_Original == pc = "decls" => \A decl \in ConstDecls : ConstDeclOutcome(decl)

\* C10: a call update_array_element(name, index, value) returns an error and
\* leaves the table as it was when the name is absent, its value is not an
\* Array or the index is not below the length; otherwise it returns Ok, the
\* element at index is the value, and every other element, the length, the
\* other fields of the entry and every other entry are as before.
C10_UpdateArrayElement ==
    [][last'[1] = "update_array_element" =>
        LET name == last'[2]
            index == last'[3]
            value == last'[4]
            t == symbol_table
            u == symbol_table'
        IN IF \/ name \notin DOMAIN t
              \/ t[name].value[1] # "Array"
              \/ index >= Len(t[name].value[2])
           THEN ret'[1] = "Err" /\ u = t
           ELSE /\ ret' = <<"Ok">>
                /\ DOMAIN u = DOMAIN t
                /\ \A m \in DOMAIN t \ {name} : u[m] = t[m]
                /\ [u[name] EXCEPT !.value = t[name].value] = t[name]
                /\ u[name].value[1] = "Array"
                /\ Len(u[name].value[2]) = Len(t[name].value[2])
                /\ u[name].value[2][index + 1] = value
                /\ \A j \in 1..Len(t[name].value[2]) :
                      j # index + 1 => u[name].value[2][j] = t[name].value[2][j]]_vars

\* C10 witness: a call has replaced an element of a two-entry table
C10_Witness ==
    /\ last[1] = "update_array_element"
    /\ ret = <<"Ok">>
    /\ last[4] = IntV(5)
    /\ symbol_table[last[2]].value[2][last[3] + 1] = IntV(5)
    /\ Cardinality(DOMAIN symbol_table) = 2

\* C11: a lookup that directly follows a successful insert of the same name
\* returns the inserted entry, equal in every field; an insert of a name that
\* is already present returns an error and leaves the table, the existing
\* entry included, as it was, and an insert of a new name adds that one key.
C11_InsertLookup ==
    [][/\ (/\ last[1] = "insert"
           /\ ret = <<"Ok">>
           /\ last'[1] = "lookup"
           /\ last'[2] = last[2].name) => ret' = Some(last[2])
       /\ last'[1] = "insert" =>
            IF last'[2].name \in DOMAIN symbol_table
            THEN ret'[1] = "Err" /\ symbol_table' = symbol_table
            ELSE /\ ret' = <<"Ok">>
                 /\ DOMAIN symbol_table' = DOMAIN symbol_table \cup {last'[2].name}
                 /\ symbol_table'[last'[2].name] = last'[2]
                 /\ \A n \in DOMAIN symbol_table : symbol_table'[n] = symbol_table[n]]_vars

\* C11 witness: an insert of a different entry under a present name was
\* rejected and the existing entry is still there
C11_Witness ==
    /\ last[1] = "insert"
    /\ ret[1] = "Err"
    /\ last[2].name \in DOMAIN symbol_table
    /\ symbol_table[last[2].name] # last[2]

\* C12: a call update_value(name, value) returns the UndefinedSymbol error and
\* leaves the table as it was when the name is absent; otherwise it returns
\* Ok and only the value of that entry changes, to the given value, whatever
\* the entity kind of the entry.
C12_UpdateValue ==
    [][last'[1] = "update_value" =>
        LET name == last'[2]
            value == last'[3]
            t == symbol_table
            u == symbol_table'
        IN IF name \notin DOMAIN t
           THEN ret' = <<"Err", <<"UndefinedSymbol", name>>>> /\ u = t
           ELSE /\ ret' = <<"Ok">>
                /\ DOMAIN u = DOMAIN t
                /\ \A m \in DOMAIN t \ {name} : u[m] = t[m]
                /\ u[name].value = value
                /\ u[name].name = t[name].name
                /\ u[name].entity_type = t[name].entity_type
                /\ u[name].data_type = t[name].data_type
                /\ u[name].line = t[name].line
                /\ u[name].column = t[name].column]_vars

\* C12 witness: the value of an array entry has been replaced by a scalar,
\* beside another entry
C12_Witness ==
    /\ last[1] = "update_value"
    /\ ret = <<"Ok">>
    /\ symbol_table[last[2]].entity_type[1] = "Array"
    /\ symbol_table[last[2]].value = IntV(5)
    /\ Cardinality(DOMAIN symbol_table) = 2

-----------------------------------------------------------------------------
(* The quadruples a lowering emits *)

\* what the lowering that took g to r appended
Emitted(g, r) == SubSeq(r.quads, Len(g.quads) + 1, Len(r.quads))

\* g with an empty list, to collect what one part of a lowering emits
Fresh(g) == [g EXCEPT !.quads = <<>>]

\* g with n more labels allocated
SkipLabels(g, n) == [g EXCEPT !.label_count = @ + n]

\* the Temp ids inside an operand
RECURSIVE OperandTemps(_)
OperandTemps(o) ==
    CASE o[1] = "Temp" -> {o[2]}
      [] o[1] = "ArrayElement" -> OperandTemps(o[3])
      [] OTHER -> {}

\* the Temp ids a quadruple mentions, and the one it defines
OptionTemps(o) == IF IsSome(o) THEN OperandTemps(o[2]) ELSE {}
QuadTemps(q) == OptionTemps(q.arg1) \cup OptionTemps(q.arg2) \cup OptionTemps(q.result)
Defines(q, id) == q.result = Some(Temp(id))
LabelsOf(q) == IF IsSome(q.result) /\ q.result[2][1] = "Label" THEN {q.result[2][2]} ELSE {}

\* the layout of a lowered IfElse
IfElseLowered(g, stmt) ==
    LET r == generate_from_statement(g, stmt)
        cond == generate_from_condition(Fresh(g), stmt[2])
        else_label == Label(cond.g.label_count)
        end_label == Label(cond.g.label_count + 1)
        if_branch == GenerateStatements(Fresh(SkipLabels(cond.g, 2)), stmt[3])
        else_branch == GenerateStatements(Fresh(if_branch), stmt[4])
    IN /\ Emitted(g, r) =
            cond.g.quads
            \o <<Quadruple("IfFalse", cond.r, None, Some(else_label))>>
            \o if_branch.quads
            \o <<Quadruple("Goto", None, None, Some(end_label)),
                 Quadruple("Label", None, None, Some(else_label))>>
            \o else_branch.quads
            \o <<Quadruple("Label", None, None, Some(end_label))>>
       /\ else_label # end_label
       /\ else_label[2] >= g.label_count
       /\ end_label[2] >= g.label_count

\* C13: lowering an IfElse emits the condition's instructions, IfFalse(cond,
\* else_label), the if-branch, Goto(end_label), Label(else_label), the
\* else-branch and Label(end_label), in this order, with two distinct new
\* labels, whatever the branches contain.
C13_Original ==
    pc = "generate" =>
        \A stmt \in GenIfElses :
            /\ ~generate_from_statement(Generator, stmt).panic
            /\ IfElseLowered(Generator, stmt)

\* the layout of a lowered For
ForLowered(g, stmt) ==
    LET r == generate_from_statement(g, stmt)
        loop_var == OperandVariable(stmt[2])
        start == generate_from_expression(Fresh(g), stmt[3])
        end == generate_from_expression(Fresh(start.g), stmt[4])
        step == generate_from_expression(Fresh(end.g), stmt[5])
        loop_start == Label(step.g.label_count)
        loop_end == Label(step.g.label_count + 1)
        cond_temp == Temp(step.g.temp_count)
        body == GenerateStatements(
                    Fresh([SkipLabels(step.g, 2) EXCEPT !.temp_count = @ + 1]), stmt[6])
        new_val == Temp(body.temp_count)
    IN /\ Emitted(g, r) =
            start.g.quads \o end.g.quads \o step.g.quads
            \o <<Quadruple("Assign", start.r, None, Some(loop_var)),
                 Quadruple("Label", None, None, Some(loop_start)),
                 Quadruple("GreaterThan", Some(loop_var), end.r, Some(cond_temp)),
                 Quadruple("IfTrue", Some(cond_temp), None, Some(loop_end))>>
            \o body.quads
            \o <<Quadruple("Add", Some(loop_var), step.r, Some(new_val)),
                 Quadruple("Assign", Some(new_val), None, Some(loop_var)),
                 Quadruple("Goto", None, None, Some(loop_start)),
                 Quadruple("Label", None, None, Some(loop_end))>>
       /\ cond_temp # new_val
       /\ loop_start # loop_end

\* C14: lowering a For emits, after the instructions of start, end and step,
\* Assign(start, loop_var), Label(loop_start), GreaterThan(loop_var, end) into
\* a new temp, IfTrue(temp, loop_end), the body once, Add(loop_var, step) into
\* a second new temp, Assign(temp2, loop_var), Goto(loop_start) and
\* Label(loop_end), the two temps distinct.
C14_Original ==
    pc = "generate" =>
        \A stmt \in GenFors :
            /\ ~generate_from_statement(Generator, stmt).panic
            /\ ForLowered(Generator, stmt)

\* the layout of a lowered DoWhile
DoWhileLowered(g, stmt) ==
    LET r == generate_from_statement(g, stmt)
        start_label == Label(g.label_count)
        body == GenerateStatements(Fresh(SkipLabels(g, 2)), stmt[3])
        cond == generate_from_condition(Fresh(body), stmt[2])
    IN Emitted(g, r) =
          <<Quadruple("Label", None, None, Some(start_label))>>
          \o body.quads
          \o cond.g.quads
          \o <<Quadruple("IfTrue", cond.r, None, Some(start_label))>>

\* C15: lowering a DoWhile emits Label(start_label), the body, the
\* condition's instructions and IfTrue(cond, start_label), and no other
\* quadruple.
C15_Original ==
    pc = "generate" =>
        \A stmt \in GenDoWhiles :
            /\ ~generate_from_statement(Generator, stmt).panic
            /\ DoWhileLowered(Generator, stmt)

\* every Temp mentioned in the quadruples was handed out, and is the result
\* of exactly one quadruple
TempsDefinedOnce ==
    /\ \A i \in DOMAIN quads : \A id \in QuadTemps(quads[i]) : id < temp_count
    /\ \A id \in 0..(temp_count - 1) :
          Cardinality({i \in DOMAIN quads : Defines(quads[i], id)}) = 1

\* C16: the two counters never decrease, the temps and labels of the
\* quadruples a step adds were handed out in that step and so were never
\* handed out before, and every Temp id is the result of exactly one
\* quadruple.
C16_FreshIds ==
    [][/\ temp_count' >= temp_count
       /\ label_count' >= label_count
       /\ \A i \in (Len(quads) + 1)..Len(quads') :
             /\ \A id \in OptionTemps(quads'[i].result) :
                   id >= temp_count /\ id < temp_count'
             /\ \A id \in LabelsOf(quads'[i]) :
                   id >= label_count /\ id < label_count'
       /\ TempsDefinedOnce']_vars

\* C16 witness: a second statement has been lowered after a first one that
\* took temps and labels, and took more of both
C16_Witness ==
    /\ pc = "generate"
    /\ steps = 2
    /\ last[2][1] = "For"
    /\ temp_count >= 4
    /\ label_count >= 4
    /\ \E i \in DOMAIN quads : quads[i].result = Some(Temp(temp_count - 1))

\* C17: the generator never raises, whatever the AST: a Type, an ArrayType or
\* a literal-wrapper as an operand of a Binary or a Not or as an array index
\* yields an empty result for that node.
C17_Original == pc # "panicked"

\* the layout of a lowered Assignment
AssignmentLowered(g, stmt) ==
    LET r == generate_from_statement(g, stmt)
        target == stmt[2]
        value == generate_from_expression(Fresh(g), stmt[3])
        index == IF target[1] = "Simple" THEN [g |-> Fresh(value.g), r |-> None]
                 ELSE generate_from_expression(Fresh(value.g), target[3])
        target_operand == IF target[1] = "Simple" THEN OperandVariable(target[2])
                          ELSE ArrayElement(target[2], index.r[2])
    IN /\ IsSome(value.r)
       /\ target[1] = "Array" => IsSome(index.r)
       /\ Emitted(g, r) =
            value.g.quads \o index.g.quads
            \o <<Quadruple("Assign", value.r, None, Some(target_operand))>>

\* C18: lowering an Assignment emits, after the instructions of the value
\* and of the index of an array target, exactly one Assign whose first
\* argument is the operand of the value, present for every value expression,
\* a literal-wrapped literal included, and whose result is the target's
\* operand.
C18_Original ==
    pc = "generate" =>
        \A stmt \in GenAssignments :
            /\ ~generate_from_statement(Generator, stmt).panic
            /\ AssignmentLowered(Generator, stmt)

-----------------------------------------------------------------------------
(* SpecEval: the two evaluators applied to one expression over a table.     *)
(* The Float operands are chosen so that every f32 result is exact:         *)
(* quotients only by powers of two, and the integer past 2^24 only with     *)
(* operands that keep the result in 24 bits.                                *)

ArithOps == {"Add", "Subtract", "Multiply", "Divide"}
EvalInts == {0, 2, 3, 4, -1, I32Max, I32Min}
EvalFloats == {FloatE(3, 2), FloatE(5, 2), FloatE(0, 1), FloatE(-2, 1)}
\* divisors whose quotients are exact
EvalDivisors == {FloatE(0, 1), FloatE(-2, 1), FloatE(1, 2)}
MixedInts == {0, 3, -1, 4}
BigInt == F32Mantissa + 1

SameInts == {Binary(Integer(a), op, Integer(b)) : a \in EvalInts, b \in EvalInts, op \in ArithOps}
SameFloats ==
    {Binary(x, op, y) : x \in EvalFloats, y \in EvalFloats,
                        op \in {"Add", "Subtract", "Multiply", "LessThan"}}
    \cup {Binary(x, "Divide", y) : x \in EvalFloats, y \in EvalDivisors}
MixedOperands ==
    {<<Integer(a), y>> : a \in MixedInts, y \in EvalFloats}
    \cup {<<Var(Simple(n)), y>> : n \in {"c", "x"}, y \in {FloatE(3, 2)}}
    \cup {<<Literal(Integer(3)), FloatE(3, 2)>>}
    \cup {<<Integer(BigInt), y>> : y \in {FloatE(0, 1), FloatE(-2, 1)}}
Mixed ==
    {Binary(p[1], op, p[2]) : p \in MixedOperands,
                              op \in {"Add", "Subtract", "Multiply", "LessThan", "And"}}
    \cup {Binary(p[2], op, p[1]) : p \in MixedOperands,
                                   op \in {"Add", "Subtract", "Multiply", "LessThan", "And"}}
    \cup {Binary(Integer(a), "Divide", y) : a \in MixedInts \cup {BigInt}, y \in EvalDivisors}
    \cup {Binary(x, "Divide", Integer(b)) : x \in EvalFloats, b \in {0, -1, 4}}
Nested ==
    {Binary(Integer(2), "Add", Binary(Integer(3), "Multiply", Integer(4))),
     Binary(Binary(Integer(2), "Add", Integer(3)), "Multiply", Integer(4)),
     Binary(Integer(4), "Subtract", Binary(Integer(3), "Divide", Integer(2))),
     Binary(Integer(2), "Add", Binary(Integer(I32Max), "Add", Integer(2))),
     Binary(Literal(Integer(2)), "Add", Integer(3)),
     Binary(FloatE(3, 2), "Add", Binary(FloatE(5, 2), "Multiply", FloatE(-2, 1))),
     Binary(Integer(2), "Add", Var(Simple("c"))),
     Binary(Integer(2), "Add", X),
     Not(Integer(0)), Not(X), StringE("s")}
EvalVars == {Var(Simple(n)) : n \in {"x", "c", "k", "a"}} \cup {Var(ArrayVar("a", Integer(0)))}
EvalExprs == SameInts \cup SameFloats \cup Mixed \cup Nested \cup EvalVars

\* the tables the evaluators read
EvalTables ==
    {EmptyTable,
     ("x" :> SymbolEntry("x", Variable, "Int", IntV(3), <<1, 1>>))
        @@ ("c" :> SymbolEntry("c", Constant, "Int", IntV(5), <<2, 1>>))
        @@ ("k" :> SymbolEntry("k", Constant, "Float", FloatV(3, 2), <<3, 1>>)),
     ("x" :> SymbolEntry("x", Variable, "Int", Undefined, <<1, 1>>))
        @@ ("c" :> SymbolEntry("c", Variable, "Float", FloatV(5, 2), <<2, 1>>))
        @@ ("a" :> SymbolEntry("a", ArrayEntity(ArrSize), "Int",
                               ArrayV([i \in 1..ArrSize |-> Undefined]), <<3, 1>>))}

InitEval ==
    /\ symbol_table \in EvalTables
    /\ errors = <<>>
    /\ source_map = [n \in {} |-> <<0, 0>>]
    /\ overflow_checks \in BOOLEAN
    /\ pc = "eval"
    /\ steps = 0
    /\ ret = <<"none">>
    /\ last = <<"none">>
    /\ tokens = <<>>
    /\ occ = 0
    /\ quads = <<>>
    /\ temp_count = 0
    /\ label_count = 0

\* one call of an evaluator: it returns, or panics
Evaluated(name, expr, result) ==
    /\ last' = <<name, expr>>
    /\ ret' = result
    /\ pc' = IF result = Panic THEN "panicked" ELSE "returned"
    /\ UNCHANGED <<symbol_table, errors, source_map, overflow_checks, steps, tokens, occ,
                   generator>>

EvalExpression ==
    /\ pc = "eval"
    /\ \E expr \in EvalExprs :
          Evaluated("evaluate_expression", expr, evaluate_expression(symbol_table, expr))

EvalConstant ==
    /\ pc = "eval"
    /\ \E expr \in EvalExprs :
          Evaluated("evaluate_constant", expr, evaluate_constant(symbol_table, expr))

NextEval ==
    \/ EvalExpression
    \/ EvalConstant

SpecEval == InitEval /\ [][NextEval]_vars

-----------------------------------------------------------------------------
(* The arithmetic the evaluators are held to *)

\* the literals-only trees of one type
RECURSIVE OnlyLiterals(_, _)
OnlyLiterals(expr, kind) ==
    CASE expr[1] = kind -> TRUE
      [] expr[1] = "Binary" ->
            /\ expr[3] \in ArithOps
            /\ OnlyLiterals(expr[2], kind)
            /\ OnlyLiterals(expr[4], kind)
      [] OTHER -> FALSE

\* the integer a tree denotes, <<"Int", v>>, while every step stays within
\* 32 bits and no divisor is zero
RECURSIVE IntArith(_)
IntArith(expr) ==
    IF expr[1] = "Integer" THEN <<"Int", expr[2]>>
    ELSE LET l == IntArith(expr[2])
             r == IntArith(expr[4])
             op == expr[3]
         IN IF l[1] # "Int" THEN l
            ELSE IF r[1] # "Int" THEN r
            ELSE CASE op = "Add" ->
                        IF AddOverflows(l[2], r[2]) THEN <<"OutOfRange">>
                        ELSE <<"Int", l[2] + r[2]>>
                   [] op = "Subtract" ->
                        IF SubOverflows(l[2], r[2]) THEN <<"OutOfRange">>
                        ELSE <<"Int", l[2] - r[2]>>
                   [] op = "Multiply" ->
                        IF MulOverflows(l[2], r[2]) THEN <<"OutOfRange">>
                        ELSE <<"Int", l[2] * r[2]>>
                   [] op = "Divide" ->
                        IF r[2] = 0 THEN <<"DivideByZero">>
                        ELSE IF l[2] = I32Min /\ r[2] = -1 THEN <<"OutOfRange">>
                        ELSE <<"Int", TruncDiv(l[2], r[2])>>

\* the fraction <<n, d>> of two fractions under an operator (not reduced)
Fraction(op, l, r) ==
    CASE op = "Add" -> <<l[1] * r[2] + r[1] * l[2], l[2] * r[2]>>
      [] op = "Subtract" -> <<l[1] * r[2] - r[1] * l[2], l[2] * r[2]>>
      [] op = "Multiply" -> <<l[1] * r[1], l[2] * r[2]>>
      [] op = "Divide" -> <<l[1] * r[2], l[2] * r[1]>>

\* the fraction a Float tree denotes, or <<0, 0>> once a divisor is zero
RECURSIVE FloatArith(_)
FloatArith(expr) ==
    IF expr[1] = "Float" THEN <<expr[2], expr[3]>>
    ELSE LET l == FloatArith(expr[2])
             r == FloatArith(expr[4])
         IN IF l[2] = 0 \/ r[2] = 0 \/ (expr[3] = "Divide" /\ r[1] = 0) THEN <<0, 0>>
            ELSE Fraction(expr[3], l, r)

\* a returned Float that equals the fraction f
IsFloatOf(result, f) ==
    /\ result[1] = "Some"
    /\ result[2][1] = "Float"
    /\ result[2][2] * f[2] = f[1] * result[2][3]

\* C19: evaluate_constant on a tree of same-typed literals under Add,
\* Subtract, Multiply and Divide by non-zero returns the value of that
\* arithmetic, following the tree; a reference to a declared Constant gives
\* its value and a reference to another variable is not evaluable.
C19_Original ==
    last[1] = "evaluate_constant" =>
        LET expr == last[2] IN
        /\ OnlyLiterals(expr, "Integer") =>
              CASE IntArith(expr)[1] = "Int" -> ret = Some(IntArith(expr))
                [] IntArith(expr)[1] = "OutOfRange" -> ret[1] = "Some"
                [] OTHER -> TRUE
        /\ (OnlyLiterals(expr, "Float") /\ FloatArith(expr)[2] # 0) =>
              IsFloatOf(ret, FloatArith(expr))
        /\ (expr[1] = "Var" /\ expr[2][1] = "Simple" /\ expr[2][2] \in DOMAIN symbol_table) =>
              IF symbol_table[expr[2][2]].entity_type = Constant
              THEN ret = Some(symbol_table[expr[2][2]].value)
              ELSE ret = None

\* the value of an operand that is a literal, a wrapped literal or a name
\* with an entry
RECURSIVE OperandValue(_, _)
OperandValue(t, expr) ==
    CASE expr[1] = "Integer" -> IntV(expr[2])
      [] expr[1] = "Float" -> FloatV(expr[2], expr[3])
      [] expr[1] = "Literal" -> OperandValue(t, expr[2])
      [] expr[1] = "Var" /\ expr[2][1] = "Simple" /\ expr[2][2] \in DOMAIN t ->
            t[expr[2][2]].value
      [] OTHER -> Undefined

\* the fraction of an operand value, an Int promoted to the nearest f32
Promoted(v) == IF v[1] = "Int" THEN <<AsF32(v[2])[2], 1>> ELSE <<v[2], v[3]>>

\* C20: with one Int and one Float operand, in either order,
\* evaluate_expression promotes the Int and returns the Float sum,
\* difference, product or quotient by non-zero, and evaluate_constant
\* returns not evaluable whatever the operator.
C20_MixedOperands ==
    (last[1] \in {"evaluate_expression", "evaluate_constant"} /\ last[2][1] = "Binary") =>
        LET op == last[2][3]
            l == OperandValue(symbol_table, last[2][2])
            r == OperandValue(symbol_table, last[2][4])
        IN {l[1], r[1]} = {"Int", "Float"} =>
              IF last[1] = "evaluate_constant" THEN ret = None
              ELSE (op \in ArithOps /\ ~(op = "Divide" /\ r[2] = 0)) =>
                      IsFloatOf(ret, Fraction(op, Promoted(l), Promoted(r)))

\* C20 witness: Int(3) + Float(1.5) evaluated to Float(4.5)
C20_Witness ==
    /\ last = <<"evaluate_expression", Binary(Integer(3), "Add", FloatE(3, 2))>>
    /\ ret = Some(FloatV(9, 2))

\* C21: whenever evaluate_constant returns a value for an expression over a
\* table, evaluate_expression returns the same value for that expression
\* over that table.
C21_Original ==
    (last[1] = "evaluate_constant" /\ ret[1] = "Some") =>
        evaluate_expression(symbol_table, last[2]) = ret

\* right-hand sides: literals, wrapped literals, arithmetic on literals and
\* on the tracked value of x, and expressions with no static value
RecordedValues ==
    {Integer(5), FloatE(3, 2), Literal(Integer(5)), Literal(FloatE(3, 2)),
     Literal(Literal(Integer(5))), Literal(Binary(Integer(2), "Add", Integer(3))),
     Binary(Integer(2), "Add", Integer(3)), Binary(Integer(2), "Multiply", Integer(3)),
     Binary(X, "Add", Integer(1)), Binary(Integer(3), "Add", FloatE(3, 2)),
     X, Var(Simple("a")), Var(ArrayVar("a", Integer(0))), Not(X), Not(Integer(0))}

\* the names declared as plain variables
DeclaredVariables(t) == {n \in DOMAIN t : t[n].entity_type = Variable}

\* the value recorded for name by the assignment name := value, given that
\* it completes without a new error
Records(name, value, recorded) ==
    LET r == process_statement(State, Assignment(Simple(name), value)) IN
    (~r.panic /\ r.errors = errors) => r.table[name].value = recorded

\* C22: an error-free assignment to a declared variable records the value
\* evaluate_expression gives for the right-hand side over the table before
\* the assignment, and Undefined when it gives none; a right-hand side that
\* is arithmetic on Int literals, such as 2 * 3, records the value of that
\* arithmetic.
C22_Original ==
    pc \in {"decls", "stmts"} =>
        \A n \in DeclaredVariables(symbol_table), v \in RecordedValues :
            LET ev == evaluate_expression(symbol_table, v) IN
            /\ Records(n, v, IF IsSome(ev) THEN ev[2] ELSE Undefined)
            /\ (OnlyLiterals(v, "Integer") /\ IntArith(v)[1] = "Int") =>
                  Records(n, v, IntArith(v))

\* branches: one that makes x zero, and ones that divide by x
ZeroingBodies == {<<>>, <<Assignment(Simple("x"), Integer(0))>>, <<Input("x")>>}
DividingBodies ==
    {<<>>, <<Assignment(Simple("x"), DivX)>>, <<Output(<<DivX>>)>>,
     <<Assignment(Simple("a"), X)>>}

\* the else-branch analysed over the table as it was before the branches,
\* after the errors of the condition and of the if-branch
ElseFromPreBranch(st, stmt) ==
    LET cond == check_condition(st, stmt[2])
        if_branch == ProcessStatements(cond, stmt[3])
    IN ProcessStatements([if_branch EXCEPT !.table = cond.table], stmt[4])

\* C23: the errors the analyzer reports for an IfElse are those of the
\* condition, of the if-branch, and of the else-branch analysed over the
\* table as it was before the branches: nothing the if-branch wrote to the
\* table shows in what the else-branch reads.
C23_Original ==
    pc \in {"decls", "stmts"} =>
        \A b1 \in ZeroingBodies, b2 \in DividingBodies :
            LET stmt == IfElse(X, b1, b2)
                r == process_statement(State, stmt)
                e == ElseFromPreBranch(State, stmt)
            IN ~r.panic => r.errors = e.errors

\* array targets on every path: the name undeclared, not an array or an
\* array, the index out of bounds, in bounds or without a static value
ArrayTargets == {ArrayVar(n, i) : n \in Names, i \in Indices}
Z == Var(Simple("z"))

\* C24: an assignment to an array element checks its value expression on
\* every path: a division by a literal zero in the value and an undeclared
\* identifier in the value are reported whatever the target's name and index
\* are.
C24_Original ==
    pc \in {"decls", "stmts"} =>
        \A target \in ArrayTargets :
            LET div == process_statement(State, Assignment(target, Div0))
                und == process_statement(State, Assignment(target, Z))
            IN /\ ~div.panic
               /\ CountKind(Appended(div), "DivisionByZero") = 1
               /\ ~und.panic
               /\ Occurs(ErrorAt(<<"UndeclaredIdentifier", "z">>, "z"), Appended(und))

\* pairs of a declaration or statement and the same with one expression
\* wrapped in Literal
WrappedPairs ==
    {<<Assignment(Simple("x"), e), Assignment(Simple("x"), Literal(e))>> :
        e \in {Integer(5), FloatE(3, 2), StringE("s"), X, Div0, DivX,
               Binary(Integer(2), "Add", Integer(3))}}
    \cup {<<Assignment(ArrayVar("a", i), Integer(5)),
            Assignment(ArrayVar("a", Literal(i)), Integer(5))>> : i \in Indices}
    \cup {<<Assignment(ArrayVar("a", Integer(0)), e),
            Assignment(ArrayVar("a", Integer(0)), Literal(e))>> : e \in {Integer(5), Div0, X}}
    \cup {<<Output(<<e>>), Output(<<Literal(e)>>)>> : e \in {X, Div0, StringE("s")}}
    \cup {<<ConstDecl("c", tn, e), ConstDecl("c", tn, Literal(e))>> :
            tn \in {"Int", "Float"}, e \in {Integer(5), FloatE(3, 2), X}}

\* process_declaration or process_statement, by the kind of the item
Process(st, item) ==
    IF item[1] \in {"VariableDecl", "ConstDecl"} THEN process_declaration(st, item)
    ELSE process_statement(st, item)

\* C25: wrapping an expression of a declaration or statement in Literal
\* changes neither the error list nor the symbol table the analyzer ends
\* with.
C25_Original ==
    pc \in {"decls", "stmts"} =>
        \A p \in WrappedPairs : Process(State, p[1]) = Process(State, p[2])

\* a remainder on the side of zero: smaller than the divisor in size
InsideDivisor(rest, b) ==
    IF b > 0 THEN rest < b /\ rest > -b
    ELSE rest > b /\ (b = I32Min \/ rest < -b)

\* C26: evaluate_constant returns, never raises; on two Int literals a
\* division by zero returns not evaluable and any other division returns
\* the quotient truncated toward zero; operands at the limits of the 32-bit
\* range return a result too.
C26_Original ==
    last[1] = "evaluate_constant" =>
        /\ ret # Panic
        /\ (last[2] \in SameInts /\ last[2][3] = "Divide") =>
              LET a == last[2][2][2]
                  b == last[2][4][2]
              IN IF b = 0 THEN ret = None
                 ELSE /\ ret[1] = "Some"
                      /\ ret[2][1] = "Int"
                      /\ LET rest == a - ret[2][2] * b IN
                         /\ InsideDivisor(rest, b)
                         /\ rest = 0 \/ (rest > 0) = (a > 0)

\* the Binary and Not nodes of an expression
RECURSIVE OperatorNodes(_)
OperatorNodes(expr) ==
    CASE expr[1] = "Binary" -> 1 + OperatorNodes(expr[2]) + OperatorNodes(expr[4])
      [] expr[1] = "Not" -> 1 + OperatorNodes(expr[2])
      [] expr[1] = "Literal" -> OperatorNodes(expr[2])
      [] expr[1] = "Var" /\ expr[2][1] = "Array" -> OperatorNodes(expr[2][3])
      [] OTHER -> 0

LoweredExprs ==
    GenExprs \cup {Binary(XPlusOne, "Multiply", Not(X)),
                   Binary(X, "LessThan", Var(ArrayVar("a", XPlusOne))),
                   Not(Binary(X, "And", Not(X)))}

\* the layout of a lowered expression
ExprLowered(g, expr) ==
    LET r == generate_from_expression(g, expr)
        left == generate_from_expression(Fresh(g), expr[2])
        right == generate_from_expression(Fresh(left.g), expr[4])
    IN /\ IsPrefix(g.quads, r.g.quads)
       /\ Len(Emitted(g, r.g)) = OperatorNodes(expr)
       /\ expr[1] = "Binary" =>
             /\ r.r = Some(Temp(right.g.temp_count))
             /\ r.g.temp_count = right.g.temp_count + 1
             /\ Emitted(g, r.g) =
                   left.g.quads \o right.g.quads
                   \o <<Quadruple(expr[3], left.r, right.r, r.r)>>
             /\ IsSome(left.r) /\ IsSome(right.r)
       /\ expr[1] = "Not" =>
             /\ r.r = Some(Temp(left.g.temp_count))
             /\ r.g.temp_count = left.g.temp_count + 1
             /\ Emitted(g, r.g) = left.g.quads \o <<Quadruple("Not", left.r, None, r.r)>>
             /\ IsSome(left.r)

\* C27: lowering an expression appends one quadruple per Binary and per Not
\* node and none for the other nodes; a Binary appends the left operand's
\* instructions, the right operand's, and one instruction with its operator,
\* the two operand results and a new temp, which it returns; what was
\* emitted before stays in place.
C27_Original ==
    pc = "generate" =>
        \A expr \in LoweredExprs :
            /\ ~generate_from_expression(Generator, expr).g.panic
            /\ ExprLowered(Generator, expr)

\* the names an expression refers to, and those it uses with an index
RECURSIVE ExprNames(_, _)
ExprNames(expr, indexed) ==
    CASE expr[1] = "Var" /\ expr[2][1] = "Simple" -> IF indexed THEN {} ELSE {expr[2][2]}
      [] expr[1] = "Var" /\ expr[2][1] = "Array" ->
            {expr[2][2]} \cup ExprNames(expr[2][3], indexed)
      [] expr[1] = "Binary" -> ExprNames(expr[2], indexed) \cup ExprNames(expr[4], indexed)
      [] expr[1] \in {"Not", "Literal"} -> ExprNames(expr[2], indexed)
      [] OTHER -> {}

TargetNames(target, indexed) ==
    IF target[1] = "Simple" THEN (IF indexed THEN {} ELSE {target[2]})
    ELSE {target[2]} \cup ExprNames(target[3], indexed)

\* the same for a statement, its nested statements included
RECURSIVE StmtNames(_, _), BodyNames(_, _)
StmtNames(stmt, indexed) ==
    CASE stmt[1] = "Assignment" ->
            TargetNames(stmt[2], indexed) \cup ExprNames(stmt[3], indexed)
      [] stmt[1] = "IfElse" ->
            ExprNames(stmt[2], indexed) \cup BodyNames(stmt[3], indexed)
            \cup BodyNames(stmt[4], indexed)
      [] stmt[1] = "DoWhile" -> ExprNames(stmt[2], indexed) \cup BodyNames(stmt[3], indexed)
      [] stmt[1] = "For" ->
            (IF indexed THEN {} ELSE {stmt[2]})
            \cup ExprNames(stmt[3], indexed) \cup ExprNames(stmt[4], indexed)
            \cup ExprNames(stmt[5], indexed) \cup BodyNames(stmt[6], indexed)
      [] stmt[1] = "Input" -> IF indexed THEN {} ELSE {stmt[2]}
      [] stmt[1] = "Output" ->
            UNION {ExprNames(stmt[2][i], indexed) : i \in DOMAIN stmt[2]}
BodyNames(stmts, indexed) == UNION {StmtNames(stmts[i], indexed) : i \in DOMAIN stmts}

\* statements that refer to a name inside a wrapper
WrappedReferences ==
    {Assignment(Simple("x"), Literal(Z)), Output(<<Literal(Var(ArrayVar("x", Integer(0))))>>),
     Assignment(ArrayVar("a", Literal(Z)), Integer(5)),
     DoWhile(Literal(Var(Simple("c"))), <<>>)}
ReferringStatements ==
    Assignments \cup IfElses \cup DoWhiles \cup Fors \cup Inputs \cup Outputs
    \cup WrappedReferences

\* C28: a statement that the analyzer passes without an error, in a run
\* without an error so far, refers only to names that have an entry, and
\* uses an index only on names whose entry is an Array; since entries are
\* never removed or retyped, so does every statement of a program on which
\* analyze returns Ok.
C28_Original ==
    (pc \in {"decls", "stmts"} /\ errors = <<>>) =>
        \A stmt \in ReferringStatements :
            LET r == process_statement(State, stmt) IN
            (~r.panic /\ r.errors = <<>>) =>
                /\ StmtNames(stmt, FALSE) \subseteq DOMAIN r.table
                /\ \A n \in StmtNames(stmt, TRUE) :
                      n \in DOMAIN r.table /\ r.table[n].entity_type[1] = "Array"

\* the Label quadruples that define the label id
Definitions(id) ==
    {i \in DOMAIN quads : quads[i].operator = "Label" /\ quads[i].result = Some(Label(id))}

IsJump(q) == q.operator \in {"Goto", "IfTrue", "IfFalse"}

\* C29: in the quadruples generated so far, every Goto, IfTrue and IfFalse
\* has a label as its target and that label is defined by exactly one Label
\* quadruple, and no label is defined by two Label quadruples.
C29_JumpTargets ==
    /\ \A i \in DOMAIN quads :
          IsJump(quads[i]) =>
             /\ LabelsOf(quads[i]) # {}
             /\ \A id \in LabelsOf(quads[i]) : Cardinality(Definitions(id)) = 1
    /\ \A i, j \in DOMAIN quads :
          (/\ quads[i].operator = "Label"
           /\ quads[j].operator = "Label"
           /\ quads[i].result = quads[j].result) => i = j

\* C29 witness: a For with a DoWhile in its body was lowered after another
\* statement with labels: five labels or more are defined and jumped to
C29_Witness ==
    /\ pc = "generate"
    /\ steps = 2
    /\ last[2][1] = "For"
    /\ last[2][6] # <<>>
    /\ last[2][6][1][1] = "DoWhile"
    /\ Cardinality({i \in DOMAIN quads : quads[i].operator = "Label"}) >= 5
    /\ Cardinality({i \in DOMAIN quads : IsJump(quads[i])}) >= 5

\* C30: every label id handed out by new_label, that is every id below
\* label_count, is defined by exactly one Label quadruple of the sequence.
C30_Original ==
    \A id \in 0..(label_count - 1) : Cardinality(Definitions(id)) = 1

====
